---- MODULE Spec2Model ----
(***************************************************************************)
(* DocuExtract AI backend: the upload pipeline of backend/main.py          *)
(* (extract_endpoint), the provider fallback of backend/extraction.py      *)
(* (extract_document, ollama_extract, gemini_extract), the preprocessing   *)
(* of backend/pdf_parser.py and the DuckDB store of backend/database.py.   *)
(*                                                                         *)
(* Every endpoint is an `async def` served by one asyncio event loop       *)
(* (uvicorn.run(app), one process; DuckDB admits one read-write process).  *)
(* A coroutine gives the loop back only where it awaits something that is  *)
(* actually pending.  In extract_endpoint that is `await file.read()`      *)
(* (main.py:103).  `await extract_document(...)`, `await ollama_extract`   *)
(* and `await gemini_extract` run the callee inline, and the callees make  *)
(* their provider calls with the synchronous clients ollama.chat and       *)
(* client.models.generate_content (extraction.py:95, 143): the coroutine   *)
(* keeps the loop while the provider call is outstanding.  loop_task is    *)
(* the request that holds the loop, 0 when the loop is idle.               *)
(***************************************************************************)
EXTENDS Integers, Sequences, FiniteSets, TLC

\* ------------------------------------------------------------------ bounds
MaxReq == 2          \* upload requests in one behaviour

Reqs == 1..MaxReq

\* ------------------------------------------------------- JSON value model
\* A provider's JSON object is a record over the keys of EXTRACTION_PROMPT.
\* Missing: the key is not in the object.  Null: the key is there with null.
Missing == "<missing>"
Null == "<null>"
\* amounts are non-negative hundredths; the sentinels lie outside that range
MissingNum == 0 - 1
NullNum == 0 - 2
NotANumber == 0 - 3

ValidDates == {"2024-01-15", "2024-02-15"}

\* dict.get(key) is falsy for a missing key, null, "" and 0
TruthyStr(v) == v \notin {Missing, Null, ""}
\* the test `is not None` in place of truthiness: 0 counts as a value
IsNotNoneNum(v) == v \notin {MissingNum, NullNum}
TruthyNum(v) == v \notin {MissingNum, NullNum} /\ v # 0

\* dict.get(key, default): the default replaces a missing key only
GetOr(v, default) == IF v = Missing THEN default ELSE v
GetOrNum(v, default) == IF v = MissingNum THEN default ELSE v

EmptyObject ==
    [documentType |-> Missing, vendorName |-> Missing, invoiceNumber |-> Missing,
     date |-> Missing, dueDate |-> Missing, totalAmount |-> MissingNum,
     taxAmount |-> MissingNum, currency |-> Missing, vendorAddress |-> Missing,
     summary |-> Missing, lineItems |-> << >>]

Widget ==
    [description |-> "Widget", quantity |-> 200, unitPrice |-> 50000, total |-> 100000,
     sku |-> Missing]
Gadget ==
    [description |-> "Gadget", quantity |-> 100, unitPrice |-> 50000, total |-> 50000,
     sku |-> "G-1"]
\* an item whose quantity is not a number: its INSERT raises a conversion error
Garbled ==
    [description |-> "Garbled", quantity |-> NotANumber, unitPrice |-> 0, total |-> 0,
     sku |-> Missing]

\* the complete record of the spec's scenario (Invoice, Acme, 1500.00, 2024-01-15)
CompleteRecord ==
    [documentType |-> "Invoice", vendorName |-> "Acme", invoiceNumber |-> "INV-001",
     date |-> "2024-01-15", dueDate |-> "2024-02-15", totalAmount |-> 150000,
     taxAmount |-> 15000, currency |-> "USD", vendorAddress |-> Missing,
     summary |-> "Invoice from Acme", lineItems |-> <<Widget, Gadget>>]
\* only vendorName
VendorOnlyRecord == [EmptyObject EXCEPT !.vendorName = "Acme"]
\* two of the three required fields, both bonuses
TwoPlusBonusRecord ==
    [CompleteRecord EXCEPT !.date = Missing, !.dueDate = Null, !.lineItems = <<Widget>>]
\* a date the DATE column cannot hold
BadDateRecord == [CompleteRecord EXCEPT !.date = "15/01/2024", !.lineItems = << >>]
\* a second line item the line_items table cannot hold
BadItemRecord == [CompleteRecord EXCEPT !.lineItems = <<Widget, Garbled>>]

ProviderRecords ==
    {CompleteRecord, VendorOnlyRecord, TwoPlusBonusRecord, BadDateRecord, BadItemRecord}

\* ------------------------------------------------ extraction.py: scoring
\* calculate_confidence, in thirtieths (1/3 = 10, 0.1 = 3, 1.0 = 30)
Thirtieths == 30
Count(b) == IF b THEN 1 ELSE 0
\* calculate_confidence with a line-item bonus of 0.2
calculate_confidence_items_double(extracted_data) ==
    LET present_fields == Count(TruthyStr(extracted_data.vendorName))
                        + Count(TruthyNum(extracted_data.totalAmount))
                        + Count(TruthyStr(extracted_data.date))
        base_score == (present_fields * Thirtieths) \div 3
        with_items == IF extracted_data.lineItems # << >> THEN base_score + 6 ELSE base_score
        with_invoice == IF TruthyStr(extracted_data.invoiceNumber)
                        THEN with_items + 3 ELSE with_items
    IN  IF with_invoice < Thirtieths THEN with_invoice ELSE Thirtieths
\* calculate_confidence without the final min(base_score, 1.0)
calculate_confidence_unclamped(extracted_data) ==
    LET present_fields == Count(TruthyStr(extracted_data.vendorName))
                        + Count(TruthyNum(extracted_data.totalAmount))
                        + Count(TruthyStr(extracted_data.date))
        base_score == (present_fields * Thirtieths) \div 3
        with_items == IF extracted_data.lineItems # << >> THEN base_score + 3 ELSE base_score
    IN  IF TruthyStr(extracted_data.invoiceNumber) THEN with_items + 3 ELSE with_items
\* calculate_confidence counting the required fields that are missing
calculate_confidence_counts_missing(extracted_data) ==
    LET present_fields == Count(~TruthyStr(extracted_data.vendorName))
                        + Count(~TruthyNum(extracted_data.totalAmount))
                        + Count(~TruthyStr(extracted_data.date))
        base_score == (present_fields * Thirtieths) \div 3
        with_items == IF extracted_data.lineItems # << >> THEN base_score + 3 ELSE base_score
        with_invoice == IF TruthyStr(extracted_data.invoiceNumber)
                        THEN with_items + 3 ELSE with_items
    IN  IF with_invoice < Thirtieths THEN with_invoice ELSE Thirtieths

calculate_confidence(extracted_data) ==
    LET present_fields == Count(TruthyStr(extracted_data.vendorName))
                        + Count(TruthyNum(extracted_data.totalAmount))
                        + Count(TruthyStr(extracted_data.date))
        base_score == (present_fields * Thirtieths) \div 3
        with_items == IF extracted_data.lineItems # << >> THEN base_score + 3 ELSE base_score
        with_invoice == IF TruthyStr(extracted_data.invoiceNumber)
                        THEN with_items + 3 ELSE with_items
    IN  IF with_invoice < Thirtieths THEN with_invoice ELSE Thirtieths

\* the gate of extract_document: result["confidence"] >= 0.8
GateThirtieths == 24
\* the gate one bonus lower: result["confidence"] >= 0.7666...
PassesGateOneBonusLower(confidence) == confidence >= GateThirtieths - 1
PassesGate(confidence) == confidence >= GateThirtieths

\* ------------------------------------- extraction.py: parse_json_response
\* A provider's response text is a sequence of lexical pieces: the fence
\* markers (three backticks, with and without the json tag), a run of prose without braces, the braces, a member of an object
\* ("key": scalar, with its separator), and the scalar documents 7, [] and
\* null.
Tokens == {"<fence json>", "<fence>", "prose", "{", "}", "m", "7", "[]", "null"}

\* JSON values: an object with its members in order, a member, a scalar
Value(type, members) == [type |-> type, members |-> members]
NoValue == Value("none", << >>)
Returned(value) == [raised |-> "", value |-> value]
ValueError(message) == [raised |-> message, value |-> NoValue]

\* the members of an object from position i up to its closing brace
ParseFail == [ok |-> FALSE, next |-> 0, members |-> << >>]
RECURSIVE ParseMembers(_, _, _)
ParseMembers(text, i, acc) ==
    IF i > Len(text) THEN ParseFail
    ELSE IF text[i] = "}" THEN [ok |-> TRUE, next |-> i + 1, members |-> acc]
    ELSE IF text[i] = "m" THEN ParseMembers(text, i + 1, Append(acc, Value("member", << >>)))
    ELSE IF text[i] = "{"
    THEN LET inner == ParseMembers(text, i + 1, << >>)
         IN  IF inner.ok
             THEN ParseMembers(text, inner.next, Append(acc, Value("object", inner.members)))
             ELSE ParseFail
    ELSE ParseFail

\* json.loads: the whole text is one JSON document, or JSONDecodeError
json_loads(text) ==
    IF text = <<"7">> THEN Returned(Value("number", << >>))
    ELSE IF text = <<"[]">> THEN Returned(Value("list", << >>))
    ELSE IF text = <<"null">> THEN Returned(Value("null", << >>))
    ELSE IF text # << >> /\ text[1] = "{"
    THEN LET parsed == ParseMembers(text, 2, << >>)
         IN  IF parsed.ok /\ parsed.next = Len(text) + 1
             THEN Returned(Value("object", parsed.members))
             ELSE ValueError("Failed to parse JSON response")
    ELSE ValueError("Failed to parse JSON response")

\* str.replace(piece, "")
Remove(text, piece) == SelectSeq(text, LAMBDA t : t # piece)
\* str.find and str.rfind, 0 when the piece does not occur
Find(text, piece) ==
    IF \A i \in 1..Len(text) : text[i] # piece THEN 0
    ELSE CHOOSE i \in 1..Len(text) : text[i] = piece /\ \A j \in 1..(i - 1) : text[j] # piece
RFind(text, piece) ==
    IF \A i \in 1..Len(text) : text[i] # piece THEN 0
    ELSE CHOOSE i \in 1..Len(text) : text[i] = piece /\ \A j \in (i + 1)..Len(text) : text[j] # piece

parse_json_response(text) ==
    LET unfenced == IF \E i \in 1..Len(text) : text[i] \in {"<fence json>", "<fence>"}
                    THEN Remove(Remove(text, "<fence json>"), "<fence>")
                    ELSE text
        first_brace == Find(unfenced, "{")
        last_brace == RFind(unfenced, "}")
        sliced == IF first_brace # 0 /\ last_brace # 0
                  THEN SubSeq(unfenced, first_brace, last_brace)
                  ELSE unfenced
    IN  json_loads(sliced)

\* --------------------------------------------- provider call outcomes
\* What the provider call inside an adapter does: it raises, or it returns
\* text that is not JSON ("malformed"), JSON that is not an object
\* ("scalar"), or a JSON object.
Outcome(kind, cause, data) == [kind |-> kind, cause |-> cause, data |-> data]
NoOutcome == Outcome("none", "", EmptyObject)
ProviderOutcomes(provider) ==
    {Outcome("raise", provider \o " unreachable", EmptyObject),
     Outcome("malformed", "", EmptyObject),
     Outcome("scalar", "", EmptyObject)}
    \cup {Outcome("object", "", d) : d \in ProviderRecords}

\* parse_json_response followed by calculate_confidence inside an adapter's
\* try block: anything but an object ends in the adapter's ValueError.
NoResult == [ok |-> FALSE, error |-> << >>, data |-> EmptyObject, confidence |-> 0, provider |-> ""]
AdapterResult(out, provider, label) ==
    CASE out.kind = "object" ->
           [ok |-> TRUE, error |-> << >>, data |-> out.data,
            confidence |-> calculate_confidence(out.data), provider |-> provider]
      [] out.kind = "raise" ->
           [NoResult EXCEPT !.error = <<label, out.cause>>]
      [] out.kind = "malformed" ->
           [NoResult EXCEPT !.error = <<label, "Failed to parse JSON response">>]
      [] OTHER ->
           [NoResult EXCEPT !.error = <<label, "object has no attribute 'get'">>]

\* ---------------------------------------------------------- pdf_parser.py
\* str.lower() on the extension of a filename
Lower(ext) ==
    CASE ext = ".PDF" -> ".pdf" [] ext = ".Pdf" -> ".pdf"
      [] ext = ".PNG" -> ".png" [] ext = ".JPG" -> ".jpg" [] ext = ".JPEG" -> ".jpeg"
      [] OTHER -> ext
ImageExtensions == {".png", ".jpg", ".jpeg", ".gif", ".bmp", ".webp"}

\* detect_file_type with the magic bytes consulted before the extension
detect_file_type_magic_first(file_bytes, filename) ==
    IF file_bytes.magic = "%PDF" THEN "pdf"
    ELSE IF file_bytes.magic \in {"\\x89PNG", "\\xff\\xd8\\xff"} THEN "image"
    ELSE IF Lower(filename.ext) = ".pdf" THEN "pdf"
    ELSE IF Lower(filename.ext) \in ImageExtensions THEN "image"
    ELSE "unknown"

detect_file_type(file_bytes, filename) ==
    IF Lower(filename.ext) = ".pdf" THEN "pdf"
    ELSE IF Lower(filename.ext) \in ImageExtensions THEN "image"
    ELSE IF file_bytes.magic = "%PDF" THEN "pdf"
    ELSE IF file_bytes.magic \in {"\\x89PNG", "\\xff\\xd8\\xff"} THEN "image"
    ELSE "unknown"

\* file_bytes.pages of a file no PDF library can open
Unreadable == 0 - 1
\* the bytes open as a PDF: fitz, pdfplumber and pdf2image read magic-prefixed
\* data that has a page tree, whatever the file is called
OpensAsPdf(file_bytes) == file_bytes.magic = "%PDF" /\ file_bytes.pages # Unreadable
\* the bytes open as a raster image in PIL
OpensAsImage(file_bytes) == file_bytes.magic \in {"\\x89PNG", "\\xff\\xd8\\xff", "GIF8"}

\* extract_text: one string per page
extract_text(pdf_bytes) == [i \in 1..pdf_bytes.pages |-> <<"text", pdf_bytes.content, i>>]
\* the pages of a document that carry a table (a property of the document)
TablePages(pdf_bytes) == IF pdf_bytes.content = "invoice" THEN {2} ELSE {}
\* extract_tables: {"page": n, "table": grid} in page order
RECURSIVE TablesFrom(_, _)
TablesFrom(pdf_bytes, page_num) ==
    IF page_num > pdf_bytes.pages THEN << >>
    ELSE (IF page_num \in TablePages(pdf_bytes)
          THEN <<[page |-> page_num, table |-> <<"grid", pdf_bytes.content, page_num>>]>>
          ELSE << >>) \o TablesFrom(pdf_bytes, page_num + 1)
extract_tables(pdf_bytes) == TablesFrom(pdf_bytes, 1)

\* a PIL image: page i of a document
PIL(file_bytes, i) == <<"PIL", file_bytes.content, i>>
\* pdf_to_images: convert_from_bytes, one PIL image per page
pdf_to_images(pdf_bytes) == [i \in 1..pdf_bytes.pages |-> PIL(pdf_bytes, i)]
\* image_to_base64: the PNG encoding of the image, base64-encoded
image_to_base64(image) == <<"base64", image[2], image[3]>>
\* base64.b64decode followed by Image.open (gemini_extract)
b64decode_open(img_base64) == <<"PIL", img_base64[2], img_base64[3]>>

\* the base64 page images of the first n pages
PageImages(file_bytes, n) == [i \in 1..n |-> image_to_base64(PIL(file_bytes, i))]

\* parse_document returns a dict; its keys are the DOMAIN of the function.
\* A library call that cannot open the bytes raises out of parse_document.
ParseRaised(cause) == ("raised" :> cause)
parse_document(file_bytes, filename, strategy) ==
    LET file_type == detect_file_type(file_bytes, filename)
        base == ("file_type" :> file_type)
                @@ ("filename" :> filename)
                @@ ("strategy" :> strategy)
        with_text == IF strategy \in {"text", "hybrid"}
                     THEN base @@ ("text" :> extract_text(file_bytes))
                               @@ ("tables" :> extract_tables(file_bytes))
                     ELSE base
        with_images == IF strategy \in {"vision", "hybrid"}
                       THEN with_text
                            @@ ("images" :> PageImages(file_bytes, file_bytes.pages))
                            @@ ("image_count" :> Len(pdf_to_images(file_bytes)))
                       ELSE with_text
    IN  CASE file_type = "pdf" ->
               IF ~OpensAsPdf(file_bytes)
               THEN ParseRaised(IF strategy = "vision"
                                THEN "Failed to convert PDF to images"
                                ELSE "Failed to open stream")
               ELSE with_images
          [] file_type = "image" ->
               IF ~OpensAsImage(file_bytes)
               THEN ParseRaised("cannot identify image file")
               ELSE base @@ ("images" :> PageImages(file_bytes, 1)) @@ ("image_count" :> 1)
          [] OTHER -> base

\* parsed.get("images") of extract_document, [] when the key is absent
parse_document_images(file_bytes, filename) ==
    LET parsed == parse_document(file_bytes, filename, "vision")
    IN  IF "images" \in DOMAIN parsed THEN parsed["images"] ELSE << >>

\* ----------------------------------------------------------- database.py
generate_doc_hash(file_bytes) == <<"sha256", file_bytes.content, file_bytes.size>>

NotFound == [found |-> FALSE]

DateCastable(v) == v \in {Missing, Null} \cup ValidDates
NumCastable(v) == v # NotANumber
HeaderStorable(d) ==
    /\ DateCastable(d.date) /\ DateCastable(d.dueDate)
    /\ NumCastable(d.totalAmount) /\ NumCastable(d.taxAmount)
ItemStorable(item) ==
    NumCastable(item.quantity) /\ NumCastable(item.unitPrice) /\ NumCastable(item.total)

\* the UNIQUE constraint on extractions.doc_hash and the PRIMARY KEY on id,
\* checked against the row that is being inserted
UniqueViolation(E, new_row) ==
    \E row \in E : row.doc_hash = new_row.doc_hash \/ row.id = new_row.id

\* HeaderRow with the filename bound in the doc_hash position
HeaderRowMisbound(extraction_id, doc_hash, filename, d, confidence) ==
    [id |-> extraction_id, doc_hash |-> <<"sha256", filename.name, 0>>, filename |-> filename,
     document_type |-> GetOr(d.documentType, "Unknown"),
     vendor_name |-> GetOr(d.vendorName, ""),
     total_amount |-> GetOrNum(d.totalAmount, 0),
     currency |-> GetOr(d.currency, "USD"),
     date |-> GetOr(d.date, Null),
     due_date |-> GetOr(d.dueDate, Null),
     tax_amount |-> GetOrNum(d.taxAmount, 0),
     invoice_number |-> GetOr(d.invoiceNumber, ""),
     vendor_address |-> GetOr(d.vendorAddress, Null),
     summary |-> GetOr(d.summary, Null),
     raw_json |-> d,
     confidence |-> confidence]

\* the VALUES list of the header INSERT
HeaderRow(extraction_id, doc_hash, filename, d, confidence) ==
    [id |-> extraction_id, doc_hash |-> doc_hash, filename |-> filename,
     document_type |-> GetOr(d.documentType, "Unknown"),
     vendor_name |-> GetOr(d.vendorName, ""),
     total_amount |-> GetOrNum(d.totalAmount, 0),
     currency |-> GetOr(d.currency, "USD"),
     date |-> GetOr(d.date, Null),
     due_date |-> GetOr(d.dueDate, Null),
     tax_amount |-> GetOrNum(d.taxAmount, 0),
     invoice_number |-> GetOr(d.invoiceNumber, ""),
     vendor_address |-> GetOr(d.vendorAddress, Null),
     summary |-> GetOr(d.summary, Null),
     raw_json |-> d,
     confidence |-> confidence]

\* items 1..n of the input are inserted until the first one that raises
RECURSIVE StorablePrefix(_)
StorablePrefix(items) ==
    IF items = << >> \/ ~ItemStorable(Head(items)) THEN 0
    ELSE 1 + StorablePrefix(Tail(items))

\* str(idx): the decimal digits of a position
RECURSIVE Digits(_)
Digits(n) == IF n < 10 THEN <<n>> ELSE Digits(n \div 10) \o <<n % 10>>

\* the VALUES list of a line item's INSERT; id is f"{extraction_id}_line_{idx}"
LineItemRow(extraction_id, idx, item) ==
    [id |-> <<extraction_id, "_line_">> \o Digits(idx), extraction_id |-> extraction_id,
     description |-> GetOr(item.description, ""),
     quantity |-> GetOrNum(item.quantity, 0),
     unit_price |-> GetOrNum(item.unitPrice, 0),
     total |-> GetOrNum(item.total, 0),
     sku |-> GetOr(item.sku, Null)]

\* FOREIGN KEY (extraction_id) REFERENCES extractions(id), checked when a
\* line item is inserted
ForeignKeyHolds(E, extraction_id) == \E row \in E : row.id = extraction_id

\* save_extraction with INSERT OR REPLACE for the header: a row of the same
\* fingerprint gives way to the new one
save_extraction_or_replace(E, L, extraction_id, doc_hash, filename, d, confidence) ==
    LET new_row == HeaderRow(extraction_id, doc_hash, filename, d, confidence)
        k == StorablePrefix(d.lineItems)
    IN  IF ~HeaderStorable(d)
        THEN [extractions |-> E, line_items |-> L, raised |-> "Conversion Error"]
        ELSE [extractions |-> {row \in E : ~UniqueViolation({row}, new_row)} \cup {new_row},
              line_items |-> L \cup {LineItemRow(extraction_id, i - 1, d.lineItems[i]) : i \in 1..k},
              raised |-> IF k < Len(d.lineItems) THEN "Conversion Error" ELSE ""]

\* save_extraction with the line items inserted before the header
save_extraction_items_first(E, L, extraction_id, doc_hash, filename, d, confidence) ==
    LET new_row == HeaderRow(extraction_id, doc_hash, filename, d, confidence)
        k == StorablePrefix(d.lineItems)
        items == L \cup {LineItemRow(extraction_id, i - 1, d.lineItems[i]) : i \in 1..k}
    IN  IF d.lineItems # << >> /\ ~ForeignKeyHolds(E, extraction_id)
        THEN [extractions |-> E, line_items |-> L, raised |-> "Constraint Error"]
        ELSE IF k < Len(d.lineItems) \/ ~HeaderStorable(d)
        THEN [extractions |-> E, line_items |-> items, raised |-> "Conversion Error"]
        ELSE IF UniqueViolation(E, new_row)
        THEN [extractions |-> E, line_items |-> items, raised |-> "Constraint Error"]
        ELSE [extractions |-> E \cup {new_row}, line_items |-> items, raised |-> ""]

\* save_extraction: one INSERT for the header, then one INSERT per line
\* item, each committed on its own (no transaction is opened).  raised is
\* the exception that ends it, "" when it returns.
save_extraction(E, L, extraction_id, doc_hash, filename, d, confidence) ==
    LET new_row == HeaderRow(extraction_id, doc_hash, filename, d, confidence)
        k == StorablePrefix(d.lineItems)
    IN  IF ~HeaderStorable(d)
        THEN [extractions |-> E, line_items |-> L, raised |-> "Conversion Error"]
        ELSE IF UniqueViolation(E, new_row)
        THEN [extractions |-> E, line_items |-> L, raised |-> "Constraint Error"]
        ELSE IF d.lineItems # << >> /\ ~ForeignKeyHolds(E \cup {new_row}, extraction_id)
        THEN [extractions |-> E \cup {new_row}, line_items |-> L,
              raised |-> "Constraint Error"]
        ELSE [extractions |-> E \cup {new_row},
              line_items |-> L \cup {LineItemRow(extraction_id, i - 1, d.lineItems[i]) : i \in 1..k},
              raised |-> IF k < Len(d.lineItems) THEN "Conversion Error" ELSE ""]

RowItems(L, extraction_id) == {li \in L : li.extraction_id = extraction_id}

\* a < b for two VARCHAR values given as sequences of digits: the first
\* differing digit decides, and a proper prefix comes first
RECURSIVE StrLess(_, _)
StrLess(a, b) ==
    IF a = << >> THEN b # << >>
    ELSE IF b = << >> THEN FALSE
    ELSE IF Head(a) # Head(b) THEN Head(a) < Head(b)
    ELSE StrLess(Tail(a), Tail(b))

\* float(x) applied to whatever the column holds, NULL included
FloatAsStored(x) == x
\* float(x) if x else 0.0
FloatOrZero(x) == IF x = NullNum THEN 0 ELSE x

\* ORDER BY id over the line items of one extraction: their ids share
\* f"{extraction_id}_line_", the digits after it decide
RECURSIVE OrderById(_)
OrderById(rows) ==
    IF rows = {} THEN << >>
    ELSE LET first == CHOOSE li \in rows :
                         \A other \in rows \ {li} :
                             StrLess(SubSeq(li.id, 3, Len(li.id)),
                                     SubSeq(other.id, 3, Len(other.id)))
         IN  <<first>> \o OrderById(rows \ {first})
\* the dict get_extraction builds of one line item row
ItemDict(item) ==
    [description |-> item.description, quantity |-> FloatOrZero(item.quantity),
     unitPrice |-> FloatOrZero(item.unit_price), total |-> FloatOrZero(item.total),
     sku |-> item.sku]
OrderedItems(rows) ==
    LET line_items_result == OrderById(rows)
    IN  [i \in 1..Len(line_items_result) |-> ItemDict(line_items_result[i])]

\* get_extraction without its WHERE clause: the first row of the table
get_extraction_first_row(E, L, extraction_id) ==
    IF E = {} THEN NotFound
    ELSE LET row == CHOOSE row \in E : \A other \in E : row.id <= other.id
         IN  [found |-> TRUE, id |-> row.id, documentType |-> row.document_type,
              vendorName |-> row.vendor_name, totalAmount |-> FloatOrZero(row.total_amount),
              currency |-> row.currency, date |-> row.date, dueDate |-> row.due_date,
              taxAmount |-> FloatOrZero(row.tax_amount),
              invoiceNumber |-> row.invoice_number, vendorAddress |-> row.vendor_address,
              summary |-> row.summary,
              lineItems |-> OrderedItems(RowItems(L, row.id))]

get_extraction(E, L, extraction_id) ==
    IF \A row \in E : row.id # extraction_id THEN NotFound
    ELSE LET row == CHOOSE row \in E : row.id = extraction_id
         IN  [found |-> TRUE, id |-> row.id, documentType |-> row.document_type,
              vendorName |-> row.vendor_name, totalAmount |-> FloatOrZero(row.total_amount),
              currency |-> row.currency, date |-> row.date, dueDate |-> row.due_date,
              taxAmount |-> FloatOrZero(row.tax_amount),
              invoiceNumber |-> row.invoice_number, vendorAddress |-> row.vendor_address,
              summary |-> row.summary,
              lineItems |-> OrderedItems(RowItems(L, extraction_id))]

\* check_duplicate that never finds the fingerprint
check_duplicate_blind(E, L, doc_hash) == NotFound

\* check_duplicate without its WHERE clause: the first row of the table
check_duplicate_first_row(E, L, doc_hash) ==
    IF E = {} THEN NotFound
    ELSE get_extraction(E, L, (CHOOSE row \in E : \A other \in E : row.id <= other.id).id)

check_duplicate(E, L, doc_hash) ==
    IF \A row \in E : row.doc_hash # doc_hash THEN NotFound
    ELSE get_extraction(E, L, (CHOOSE row \in E : row.doc_hash = doc_hash).id)

\* --------------------------------------- database.py: listing and export
\* the characters of the strings that are searched or exported; any other
\* string of the model is one piece without a comma or a wildcard
Chars(s) ==
    CASE s = "Acme" -> <<"A", "c", "m", "e">>
      [] s = "acme" -> <<"a", "c", "m", "e">>
      [] s = "ACME, Inc" -> <<"A", "C", "M", "E", ",", " ", "I", "n", "c">>
      [] s = "inc" -> <<"i", "n", "c">>
      [] s = "_" -> <<"_">>
      [] s = "" -> << >>
      [] OTHER -> <<s>>
\* the letter in lower case
LowerChar(c) ==
    CASE c = "A" -> "a" [] c = "C" -> "c" [] c = "M" -> "m" [] c = "E" -> "e"
      [] c = "I" -> "i" [] OTHER -> c
\* text ILIKE pattern: % is any run of characters, _ any one character,
\* every other character itself in either case; no ESCAPE is given
RECURSIVE ILike(_, _)
ILike(text, pattern) ==
    IF pattern = << >> THEN text = << >>
    ELSE IF Head(pattern) = "%"
    THEN ILike(text, Tail(pattern)) \/ (text # << >> /\ ILike(Tail(text), pattern))
    ELSE IF text = << >> THEN FALSE
    ELSE /\ Head(pattern) = "_" \/ LowerChar(Head(pattern)) = LowerChar(Head(text))
         /\ ILike(Tail(text), Tail(pattern))

\* DATE values compare by the calendar: the place of a date of the model in it
DateOrd(d) ==
    LET calendar == <<"2024-01-15", "2024-02-01", "2024-02-15">>
    IN  CHOOSE i \in 1..Len(calendar) : calendar[i] = d

\* the arguments date_from, date_to, vendor, doc_type of list_extractions
Filters(date_from, date_to, vendor, doc_type) ==
    [date_from |-> date_from, date_to |-> date_to, vendor |-> vendor, doc_type |-> doc_type]
\* where_clause: one condition per truthy argument, joined by AND; a
\* comparison with a NULL column is not true
Where(row, f) ==
    /\ TruthyStr(f.date_from) =>
          row.date # Null /\ DateOrd(row.date) >= DateOrd(f.date_from)
    /\ TruthyStr(f.date_to) =>
          row.date # Null /\ DateOrd(row.date) <= DateOrd(f.date_to)
    /\ TruthyStr(f.vendor) =>
          /\ row.vendor_name # Null
          /\ ILike(Chars(row.vendor_name), <<"%">> \o Chars(f.vendor) \o <<"%">>)
    /\ TruthyStr(f.doc_type) => row.document_type = f.doc_type

\* ORDER BY created_at DESC: the arrangements of the rows a query may come
\* back in; rows of one timestamp are in no defined order
OrderByCreatedAtDesc(rows, C) ==
    {s \in [1..Cardinality(rows) -> rows] :
        /\ \A i, j \in DOMAIN s : i # j => s[i] # s[j]
        /\ \A i, j \in DOMAIN s : i < j => C[s[i].id] >= C[s[j].id]}

\* list_extractions: COUNT(*) over the where clause, then the page (LIMIT ?
\* OFFSET ?) as a list of dicts; sorted is the order the second query came
\* back in
list_extractions(E, C, f, offset, limit, sorted) ==
    LET total == Cardinality({row \in E : Where(row, f)})
        last == IF offset + limit < Len(sorted) THEN offset + limit ELSE Len(sorted)
        results == SubSeq(sorted, offset + 1, last)
    IN  [extractions |->
            [i \in 1..Len(results) |->
                [id |-> results[i].id, filename |-> results[i].filename,
                 documentType |-> results[i].document_type,
                 vendorName |-> results[i].vendor_name,
                 totalAmount |-> FloatOrZero(results[i].total_amount),
                 currency |-> results[i].currency, date |-> results[i].date,
                 createdAt |-> C[results[i].id]]],
         total |-> total]

\* str(val) of a value that is not None, "" for None: a number or an
\* identifier prints as one piece without a comma
StrNum(val) == IF val = NullNum THEN << >> ELSE <<ToString(val)>>
StrText(val) == IF val = Null THEN << >> ELSE Chars(val)
\* the field written as it is
CsvFieldKeepCommas(text) == text
\* .replace(",", ";")
CsvField(text) == [i \in 1..Len(text) |-> IF text[i] = "," THEN ";" ELSE text[i]]
\* ",".join(fields)
RECURSIVE Join(_)
Join(fields) ==
    IF Len(fields) = 0 THEN << >>
    ELSE IF Len(fields) = 1 THEN fields[1]
    ELSE fields[1] \o <<",">> \o Join(Tail(fields))

CsvHeader ==
    <<"id", ",", "filename", ",", "document_type", ",", "vendor_name", ",", "total_amount",
      ",", "currency", ",", "date", ",", "invoice_number", ",", "tax_amount", ",", "summary",
      ",", "line_description", ",", "line_quantity", ",", "line_unit_price", ",",
      "line_total", ",", "line_sku">>
\* the columns of one row of extractions e LEFT JOIN line_items l, each as
\* str(val)
JoinedRow(e, l) ==
    <<StrNum(e.id), <<e.filename.name, e.filename.ext>>, StrText(e.document_type), StrText(e.vendor_name),
      StrNum(e.total_amount), StrText(e.currency), StrText(e.date),
      StrText(e.invoice_number), StrNum(e.tax_amount), StrText(e.summary),
      StrText(l.description), StrNum(l.quantity), StrNum(l.unit_price), StrNum(l.total),
      StrText(l.sku)>>
\* the joined rows of a set of extractions, ORDER BY e.id, l.id; an
\* extraction without line items has one row, its line item columns NULL
RECURSIVE JoinedRows(_, _)
JoinedRows(E, L) ==
    IF E = {} THEN << >>
    ELSE LET e == CHOOSE row \in E : \A other \in E : row.id <= other.id
             items == OrderById(RowItems(L, e.id))
             rows == IF items = << >>
                     THEN <<JoinedRow(e, [description |-> Null, quantity |-> NullNum,
                                          unit_price |-> NullNum, total |-> NullNum,
                                          sku |-> Null])>>
                     ELSE [i \in 1..Len(items) |-> JoinedRow(e, items[i])]
         IN  rows \o JoinedRows(E \ {e}, L)

\* Optional[List[str]]: None, or a list
None == << >>
Some(list) == <<list>>
\* export_to_csv: the lines of the text it returns; `if extraction_ids` is
\* false for None and for the empty list
export_to_csv(E, L, extraction_ids) ==
    LET selected == IF extraction_ids = None \/ extraction_ids[1] = << >> THEN E
                    ELSE {e \in E : \E i \in DOMAIN extraction_ids[1] :
                                        extraction_ids[1][i] = e.id}
        rows == JoinedRows(selected, L)
    IN  <<CsvHeader>> \o
        [i \in 1..Len(rows) |-> Join([c \in 1..Len(rows[i]) |-> CsvField(rows[i][c])])]

\* models.py: the values of the enum DocumentType
DocumentType == {"Invoice", "Receipt", "Bank Statement", "Insurance EOB", "Unknown"}

\* ------------------------------------------------------------ the uploads
allowed_types ==
    {"application/pdf", "image/png", "image/jpeg", "image/jpg", "image/gif", "image/webp"}
MaxUploadBytes == 10 * 1024 * 1024

Bytes(content, magic, pages, size) ==
    [content |-> content, magic |-> magic, pages |-> pages, size |-> size]
File(name, ext) == [name |-> name, ext |-> ext]
Upload(content_type, filename, file_bytes) ==
    [content_type |-> content_type, filename |-> filename, file_bytes |-> file_bytes]

InvoicePdf == Bytes("invoice", "%PDF", 2, 2048)
\* a scan of exactly 10 MiB
ReceiptPng == Bytes("receipt", "\\x89PNG", 1, MaxUploadBytes)
BlankPdf == Bytes("blank", "%PDF", 0, 512)
HugePdf == Bytes("huge", "%PDF", 1, MaxUploadBytes + 1)

Uploads ==
    {Upload("application/pdf", File("invoice", ".pdf"), InvoicePdf),
     Upload("image/png", File("receipt", ".PNG"), ReceiptPng),
     Upload("application/pdf", File("blank", ".pdf"), BlankPdf),
     Upload("application/pdf", File("huge", ".pdf"), HugePdf),
     Upload("text/plain", File("invoice", ".txt"), InvoicePdf),
     Upload("application/pdf", File("invoice", ".dat"), Bytes("notes", "text", 0, 100))}

NoUpload == Upload("", File("", ""), Bytes("", "", 0, 0))
NoResponse == [status |-> 0]
\* no provider call made yet
NoRequest == [ollama |-> << >>, gemini |-> << >>]
\* no direct call
NoCall == [fn |-> "", arg |-> << >>, done |-> FALSE, ret |-> << >>]

VARIABLES
    extractions,      \* table extractions
    line_items,       \* table line_items
    created_at,       \* column created_at of table extractions, by row id
    GEMINI_API_KEY,   \* extraction.py:14, read once at import
    loop_task,        \* the request whose coroutine holds the event loop, 0 if idle
    pc,               \* position of each request in extract_endpoint
    upload,           \* the file each request carries
    images,           \* local of extract_document: parsed["images"]
    ollama_out,       \* what the local provider call of the run did
    gemini_out,       \* what the remote provider call of the run did
    result,           \* what extract_document returned or raised
    calls,            \* adapter invocations per request (observation)
    twin_pending,     \* observation: at r's check an upload of the same bytes was in flight
    response,         \* the HTTP response of each upload
    provider_request, \* what each run handed to ollama.chat and to generate_content
    fcall             \* a direct call of one module-level function (none in Spec)

vars == <<extractions, line_items, created_at, GEMINI_API_KEY, loop_task, pc, upload, images,
          ollama_out, gemini_out, result, calls, twin_pending, response,
          provider_request, fcall>>

store == <<extractions, line_items, created_at>>

\* DEFAULT CURRENT_TIMESTAMP: the clock never runs backwards, and two
\* INSERTs may read the same instant
CURRENT_TIMESTAMP ==
    IF DOMAIN created_at = {} THEN {1}
    ELSE LET latest == CHOOSE t \in {created_at[id] : id \in DOMAIN created_at} :
                          \A id \in DOMAIN created_at : created_at[id] <= t
         IN  {latest, latest + 1}
\* created_at once the rows of E are stored, a new row inserted at now
Stamped(E, now) ==
    [id \in {row.id : row \in E} |->
        IF id \in DOMAIN created_at THEN created_at[id] ELSE now]

\* the state after import and init_database, before any upload
PipelineInit ==
    /\ extractions = {}
    /\ line_items = {}
    /\ created_at = << >>
    /\ GEMINI_API_KEY \in BOOLEAN
    /\ loop_task = 0
    /\ pc = [r \in Reqs |-> "new"]
    /\ upload = [r \in Reqs |-> NoUpload]
    /\ images = [r \in Reqs |-> << >>]
    /\ ollama_out = [r \in Reqs |-> NoOutcome]
    /\ gemini_out = [r \in Reqs |-> NoOutcome]
    /\ result = [r \in Reqs |-> NoResult]
    /\ calls = [r \in Reqs |-> [ollama |-> 0, gemini |-> 0]]
    /\ twin_pending = [r \in Reqs |-> FALSE]
    /\ response = [r \in Reqs |-> NoResponse]
    /\ provider_request = [r \in Reqs |-> NoRequest]

Init == PipelineInit /\ fcall = NoCall

\* uuid.uuid4(): one fresh identifier per request
uuid4(r) == r

\* r's coroutine is running on the loop
Holds(r) == loop_task = r
\* the loop is idle and can start or resume a coroutine
LoopIdle == loop_task = 0
\* AwaitProvider with awaitable clients: the loop is given back during the call
AwaitProviderAsync(r) == 0
\* the holder of the loop while r's provider call is outstanding: ollama.chat
\* and generate_content are synchronous calls, r keeps the loop
AwaitProvider(r) == r
\* r continues after its provider call: it still holds the loop, or the
\* loop is idle and resumes it
Resumes(r) == loop_task \in {0, r}

\* the handler returns or raises HTTPException: the response goes out, the
\* frame of the coroutine (its locals) is gone and the loop is free again
Finish(r, resp) ==
    /\ response' = [response EXCEPT ![r] = resp]
    /\ pc' = [pc EXCEPT ![r] = "done"]
    /\ loop_task' = 0
    /\ images' = [images EXCEPT ![r] = << >>]
    /\ ollama_out' = [ollama_out EXCEPT ![r] = NoOutcome]
    /\ gemini_out' = [gemini_out EXCEPT ![r] = NoOutcome]
    /\ result' = [result EXCEPT ![r] = NoResult]
    /\ provider_request' = [provider_request EXCEPT ![r] = NoRequest]

\* the handler moves on to position p without giving up the loop
Goto(r, p) ==
    /\ pc' = [pc EXCEPT ![r] = p]
    /\ UNCHANGED <<loop_task, response>>

HttpError(status, detail) == [status |-> status, detail |-> detail]

\* main.py:81-103: the content-type check, then `await file.read()`
Start(r) ==
    /\ pc[r] = "new"
    /\ LoopIdle
    /\ \E u \in Uploads :
         /\ upload' = [upload EXCEPT ![r] = u]
         /\ IF u.content_type \notin allowed_types
            THEN Finish(r, HttpError(400, <<"Unsupported file type", u.content_type>>))
            ELSE /\ Goto(r, "read")
                 /\ UNCHANGED <<images, ollama_out, gemini_out, result, provider_request>>
    /\ UNCHANGED <<store, GEMINI_API_KEY, fcall, calls, twin_pending>>

\* ReadDone that turns away a file of exactly 10 MiB as well
ReadDoneInclusive(r) ==
    /\ pc[r] = "read"
    /\ LoopIdle
    /\ IF upload[r].file_bytes.size >= MaxUploadBytes
       THEN Finish(r, HttpError(400, <<"File size exceeds 10MB limit">>))
       ELSE /\ pc' = [pc EXCEPT ![r] = "check"]
            /\ loop_task' = r
            /\ UNCHANGED <<response, images, ollama_out, gemini_out, result, provider_request>>
    /\ UNCHANGED <<store, GEMINI_API_KEY, fcall, upload, calls, twin_pending>>

\* main.py:103-110: file.read() completes, the size check
ReadDone(r) ==
    /\ pc[r] = "read"
    /\ LoopIdle
    /\ IF upload[r].file_bytes.size > MaxUploadBytes
       THEN Finish(r, HttpError(400, <<"File size exceeds 10MB limit">>))
       ELSE /\ pc' = [pc EXCEPT ![r] = "check"]
            /\ loop_task' = r
            /\ UNCHANGED <<response, images, ollama_out, gemini_out, result, provider_request>>
    /\ UNCHANGED <<store, GEMINI_API_KEY, fcall, upload, calls, twin_pending>>

DuplicateResponse(existing) ==
    [status |-> 200, id |-> existing.id, data |-> existing, duplicate |-> TRUE]

\* CheckDuplicate that registers the fingerprint as soon as the check misses
CheckDuplicateReserving(r) ==
    /\ pc[r] = "check"
    /\ Holds(r)
    /\ LET doc_hash == generate_doc_hash(upload[r].file_bytes)
           existing == check_duplicate(extractions, line_items, doc_hash)
       IN  IF existing # NotFound
           THEN /\ Finish(r, DuplicateResponse(existing))
                /\ UNCHANGED store
           ELSE /\ Goto(r, "parse")
                /\ extractions' = extractions \cup
                      {HeaderRow(uuid4(r), doc_hash, upload[r].filename, EmptyObject, 0)}
                /\ \E now \in CURRENT_TIMESTAMP : created_at' = Stamped(extractions', now)
                /\ UNCHANGED <<line_items, images, ollama_out, gemini_out, result, provider_request>>
    /\ twin_pending' = [twin_pending EXCEPT ![r] =
          \E q \in Reqs \ {r} : pc[q] = "read" /\ upload[q].file_bytes = upload[r].file_bytes]
    /\ UNCHANGED <<GEMINI_API_KEY, fcall, upload, calls>>

\* main.py:112-120: the deduplication check
CheckDuplicate(r) ==
    /\ pc[r] = "check"
    /\ Holds(r)
    /\ LET doc_hash == generate_doc_hash(upload[r].file_bytes)
           existing == check_duplicate(extractions, line_items, doc_hash)
       IN  IF existing # NotFound
           THEN Finish(r, DuplicateResponse(existing))
           ELSE /\ Goto(r, "parse")
                /\ UNCHANGED <<images, ollama_out, gemini_out, result, provider_request>>
    /\ twin_pending' = [twin_pending EXCEPT ![r] =
          \E q \in Reqs \ {r} : pc[q] = "read" /\ upload[q].file_bytes = upload[r].file_bytes]
    /\ UNCHANGED <<store, GEMINI_API_KEY, fcall, upload, calls>>

Raised(error) == [NoResult EXCEPT !.error = error]

\* Parse that hands whatever parse_document returned to the adapters
ParseUnchecked(r) ==
    /\ pc[r] = "parse"
    /\ Holds(r)
    /\ images' = [images EXCEPT ![r] = parse_document_images(upload[r].file_bytes,
                                                            upload[r].filename)]
    /\ Goto(r, "ollama_call")
    /\ UNCHANGED <<store, GEMINI_API_KEY, fcall, upload, ollama_out, gemini_out, calls,
                   twin_pending, result, provider_request>>

\* extraction.py:184-190: parse_document, "No images extracted from document"
Parse(r) ==
    /\ pc[r] = "parse"
    /\ Holds(r)
    /\ LET parsed == parse_document(upload[r].file_bytes, upload[r].filename, "vision")
           imgs == parse_document_images(upload[r].file_bytes, upload[r].filename)
       IN  /\ images' = [images EXCEPT ![r] = imgs]
           /\ IF "raised" \in DOMAIN parsed
              THEN /\ result' = [result EXCEPT ![r] = Raised(<<parsed["raised"]>>)]
                   /\ Goto(r, "raised")
              ELSE IF imgs = << >>
              THEN /\ result' = [result EXCEPT
                                   ![r] = Raised(<<"No images extracted from document">>)]
                   /\ Goto(r, "raised")
              ELSE /\ Goto(r, "ollama_call")
                   /\ UNCHANGED result
    /\ UNCHANGED <<store, GEMINI_API_KEY, fcall, upload, ollama_out, gemini_out, calls,
                   twin_pending, provider_request>>

\* the whole list in place of images[:1]
OllamaImagesAll(images_arg) == images_arg
\* extraction.py:100: "images": images[:1]
OllamaImages(images_arg) == SubSeq(images_arg, 1, IF Len(images_arg) < 1 THEN Len(images_arg) ELSE 1)

\* EXTRACTION_PROMPT, extraction.py:17-49
EXTRACTION_PROMPT == <<"prompt", "EXTRACTION_PROMPT", 0>>
\* extraction.py:130-140: contents = [prompt] followed by every decoded image
GeminiContents(images_arg) ==
    <<EXTRACTION_PROMPT>> \o [i \in 1..Len(images_arg) |-> b64decode_open(images_arg[i])]

\* extraction.py:193-195, 89-102: ollama_extract is entered and ollama.chat
\* is called
OllamaCall(r) ==
    /\ pc[r] = "ollama_call"
    /\ Holds(r)
    /\ calls' = [calls EXCEPT ![r].ollama = @ + 1]
    /\ provider_request' = [provider_request EXCEPT ![r].ollama = OllamaImages(images[r])]
    /\ pc' = [pc EXCEPT ![r] = "ollama_wait"]
    /\ loop_task' = AwaitProvider(r)
    /\ UNCHANGED <<store, GEMINI_API_KEY, fcall, upload, images, ollama_out, gemini_out,
                   result, twin_pending, response>>

\* NextAfterLocal with the gate at 0.9
NextAfterLocalStrict(res) ==
    IF res.ok /\ res.confidence >= 27 THEN "returned" ELSE "gemini_call"
\* NextAfterLocal with a retry of the local adapter after an exception
NextAfterLocalRetry(res) ==
    IF res.ok /\ PassesGate(res.confidence) THEN "returned"
    ELSE IF res.ok THEN "gemini_call" ELSE "ollama_call"

\* extraction.py:192-203: where extract_document goes with the local
\* adapter's result: returned if it passes the gate; a low score or an
\* exception falls through to Gemini
NextAfterLocal(res) ==
    IF res.ok /\ PassesGate(res.confidence) THEN "returned" ELSE "gemini_call"

\* extraction.py:104-119 and 196-201: the local response is parsed and scored
OllamaReturn(r) ==
    /\ pc[r] = "ollama_wait"
    /\ Resumes(r)
    /\ \E out \in ProviderOutcomes("ollama") :
         LET res == AdapterResult(out, "ollama", "Ollama extraction failed")
         IN  /\ ollama_out' = [ollama_out EXCEPT ![r] = out]
             /\ pc' = [pc EXCEPT ![r] = NextAfterLocal(res)]
             /\ result' = [result EXCEPT
                             ![r] = IF NextAfterLocal(res) = "returned" THEN res ELSE @]
    /\ loop_task' = r
    /\ UNCHANGED <<store, GEMINI_API_KEY, fcall, upload, images, gemini_out, calls,
                   twin_pending, response, provider_request>>

\* AllFailed that leaves the caught exception out of its message
AllFailedBare(error) == <<"All extraction methods failed. Last error">>

\* extraction.py:206-208: the error extract_document raises when Gemini fails
AllFailed(error) == <<"All extraction methods failed. Last error">> \o error

\* extraction.py:203-205, 122-146: gemini_extract is entered; without an
\* API key it raises at once, otherwise generate_content is called
GeminiCall(r) ==
    /\ pc[r] = "gemini_call"
    /\ Holds(r)
    /\ calls' = [calls EXCEPT ![r].gemini = @ + 1]
    /\ IF ~GEMINI_API_KEY
       THEN /\ gemini_out' = [gemini_out EXCEPT
                                ![r] = Outcome("raise", "GEMINI_API_KEY not set", EmptyObject)]
            /\ result' = [result EXCEPT ![r] = Raised(AllFailed(<<"GEMINI_API_KEY not set">>))]
            /\ Goto(r, "raised")
            /\ UNCHANGED provider_request
       ELSE /\ pc' = [pc EXCEPT ![r] = "gemini_wait"]
            /\ loop_task' = AwaitProvider(r)
            /\ provider_request' = [provider_request EXCEPT
                                      ![r].gemini = GeminiContents(images[r])]
            /\ UNCHANGED <<gemini_out, result, response>>
    /\ UNCHANGED <<store, GEMINI_API_KEY, fcall, upload, images, ollama_out, twin_pending>>

\* NextAfterRemote with the 0.8 gate applied to the remote result as well
NextAfterRemoteGated(res) ==
    IF res.ok /\ PassesGate(res.confidence) THEN "returned" ELSE "raised"

\* extraction.py:203-208: where extract_document goes with the remote
\* adapter's result: returned whatever its score, or the run fails
NextAfterRemote(res) == IF res.ok THEN "returned" ELSE "raised"

\* extraction.py:148-163 and 205-208: the remote response is parsed and scored
GeminiReturn(r) ==
    /\ pc[r] = "gemini_wait"
    /\ Resumes(r)
    /\ \E out \in ProviderOutcomes("gemini") :
         LET res == AdapterResult(out, "gemini", "Gemini extraction failed")
         IN  /\ gemini_out' = [gemini_out EXCEPT ![r] = out]
             /\ pc' = [pc EXCEPT ![r] = NextAfterRemote(res)]
             /\ result' = [result EXCEPT
                             ![r] = IF NextAfterRemote(res) = "returned" THEN res
                                    ELSE Raised(AllFailed(res.error))]
    /\ loop_task' = r
    /\ UNCHANGED <<store, GEMINI_API_KEY, fcall, upload, images, ollama_out, calls,
                   twin_pending, response, provider_request>>

\* main.py:128-132: an exception of extract_document becomes a 500
ExtractionFailed(r) ==
    /\ pc[r] = "raised"
    /\ Holds(r)
    /\ Finish(r, HttpError(500, <<"Extraction failed">> \o result[r].error))
    /\ UNCHANGED <<store, GEMINI_API_KEY, fcall, upload, calls, twin_pending>>

CreatedResponse(extraction_id, res) ==
    [status |-> 200, id |-> extraction_id, data |-> res.data,
     confidence |-> res.confidence, provider |-> res.provider, duplicate |-> FALSE]

\* main.py:134-157: save_extraction and the response
Save(r) ==
    /\ pc[r] = "returned"
    /\ Holds(r)
    /\ LET extraction_id == uuid4(r)
           saved == save_extraction(extractions, line_items, extraction_id,
                                    generate_doc_hash(upload[r].file_bytes),
                                    upload[r].filename, result[r].data,
                                    result[r].confidence)
       IN  /\ extractions' = saved.extractions
           /\ line_items' = saved.line_items
           /\ \E now \in CURRENT_TIMESTAMP : created_at' = Stamped(saved.extractions, now)
           /\ IF saved.raised # ""
              THEN Finish(r, HttpError(500, <<"Failed to save extraction", saved.raised>>))
              ELSE Finish(r, CreatedResponse(extraction_id, result[r]))
    /\ UNCHANGED <<GEMINI_API_KEY, fcall, upload, calls, twin_pending>>

Step(r) ==
    \/ Start(r)
    \/ ReadDone(r)
    \/ CheckDuplicate(r)
    \/ Parse(r)
    \/ OllamaCall(r)
    \/ OllamaReturn(r)
    \/ GeminiCall(r)
    \/ GeminiReturn(r)
    \/ ExtractionFailed(r)
    \/ Save(r)

Next == \E r \in Reqs : Step(r)

Spec == Init /\ [][Next]_vars

\* The steps of an upload the server takes by itself: a coroutine that can
\* run is run by the event loop.  The return of ollama.chat or of
\* generate_content is the provider's step: no timeout is passed to either
\* call (extraction.py:98-102, 142-146), so nothing in the program brings it about.
HandlerStep(r) ==
    \/ ReadDone(r)
    \/ CheckDuplicate(r)
    \/ Parse(r)
    \/ OllamaCall(r)
    \/ GeminiCall(r)
    \/ ExtractionFailed(r)
    \/ Save(r)

\* the uploads with a server that keeps running: every handler step that
\* stays possible is taken; a provider call may return, raise or hang
Live == Spec /\ \A r \in Reqs : WF_vars(HandlerStep(r))

\* ------------------------------------------ direct calls of the functions
\* calculate_confidence, parse_json_response, detect_file_type and
\* parse_document are module-level functions without state: Calls is the
\* specification of one direct call of one of them, its argument drawn at
\* the start.
pipeline == <<extractions, line_items, created_at, GEMINI_API_KEY, loop_task, pc, upload, images,
              ollama_out, gemini_out, result, calls, twin_pending, response,
              provider_request>>

MaxItems == 2        \* line items of a scored record
MaxTextLen == 3      \* pieces of an arbitrary response text

\* the records the scorer is called with
ItemLists == {[i \in 1..k |-> Widget] : k \in 0..MaxItems}
ScorerRecords ==
    {[EmptyObject EXCEPT !.vendorName = v, !.totalAmount = t, !.date = d,
                         !.invoiceNumber = n, !.lineItems = l] :
        v \in {Missing, Null, "", "Acme"}, t \in {MissingNum, NullNum, 0, 150000},
        d \in {Missing, Null, "", "2024-01-15"}, n \in {Missing, Null, "", "INV-001"},
        l \in ItemLists}

\* response texts: every text of up to MaxTextLen pieces, and object texts
\* in fences and prose
RECURSIVE TextsOfLen(_)
TextsOfLen(n) ==
    IF n = 0 THEN {<< >>}
    ELSE {Append(t, p) : t \in TextsOfLen(n - 1), p \in Tokens}
ShortTexts == UNION {TextsOfLen(n) : n \in 0..MaxTextLen}
ObjectTexts == {<<"{", "}">>, <<"{", "m", "}">>, <<"{", "m", "{", "m", "}", "m", "}">>}
Prose == {<< >>, <<"prose">>, <<"prose", "{", "prose", "}", "prose">>}
Fences == {<< >>, <<"<fence json>">>, <<"<fence>">>}
Wrapped(fence, before, J, after) ==
    before \o fence \o J \o (IF fence = << >> THEN << >> ELSE <<"<fence>">>) \o after
WrappedTexts ==
    {Wrapped(f, b, J, a) : f \in Fences, b \in Prose, J \in ObjectTexts, a \in Prose}

\* files and names the type detector and the preprocessor are called with
DocBytes ==
    {InvoicePdf, ReceiptPng, BlankPdf, Bytes("photo", "\\xff\\xd8\\xff", 1, 900),
     Bytes("anim", "GIF8", 1, 800), Bytes("notes", "text", 0, 100),
     Bytes("torn", "%PDF", Unreadable, 300)}
DocNames ==
    {File("doc", e) : e \in {".pdf", ".PDF", ".Pdf", ".png", ".JPG", ".jpeg", ".gif",
                             ".bmp", ".webp", ".txt", ".dat", ""}}
Strategies == {"text", "vision", "hybrid"}

Call(fn, arg) == [fn |-> fn, arg |-> arg, done |-> FALSE, ret |-> << >>]
Return(ret) == fcall' = [fcall EXCEPT !.done = TRUE, !.ret = ret]

CallsInit ==
    /\ PipelineInit
    /\ \/ \E d \in ScorerRecords : fcall = Call("calculate_confidence", d)
       \/ \E t \in ShortTexts \cup WrappedTexts : fcall = Call("parse_json_response", t)
       \/ \E b \in DocBytes, f \in DocNames :
             fcall = Call("detect_file_type", [file_bytes |-> b, filename |-> f])
       \/ \E b \in DocBytes, f \in DocNames, s \in Strategies :
             fcall = Call("parse_document", [file_bytes |-> b, filename |-> f, strategy |-> s])

Pending(fn) == fcall.fn = fn /\ ~fcall.done

CallCalculateConfidence ==
    /\ Pending("calculate_confidence")
    /\ Return(calculate_confidence(fcall.arg))
    /\ UNCHANGED pipeline

CallParseJsonResponse ==
    /\ Pending("parse_json_response")
    /\ Return(parse_json_response(fcall.arg))
    /\ UNCHANGED pipeline

CallDetectFileType ==
    /\ Pending("detect_file_type")
    /\ Return(detect_file_type(fcall.arg.file_bytes, fcall.arg.filename))
    /\ UNCHANGED pipeline

CallParseDocument ==
    /\ Pending("parse_document")
    /\ Return(parse_document(fcall.arg.file_bytes, fcall.arg.filename, fcall.arg.strategy))
    /\ UNCHANGED pipeline

CallsNext ==
    \/ CallCalculateConfidence
    \/ CallParseJsonResponse
    \/ CallDetectFileType
    \/ CallParseDocument

Calls == CallsInit /\ [][CallsNext]_vars


\* ---------------------------------------------- direct calls of the store
\* A second kind of behaviour: the functions of database.py called one
\* after another on one connection, as the endpoints of main.py and the
\* tests of tests/test_database.py call them.  fcall holds the last call.
MaxRows == 2         \* extractions the direct calls store
ManyItems == 11      \* line items of the long record: position 10 follows 9

\* the long record: its item at position i has the quantity i
ManyItemsRecord ==
    [CompleteRecord EXCEPT !.documentType = "Receipt", !.vendorName = "ACME, Inc",
                           !.date = "2024-02-15",
                           !.lineItems = [i \in 1..ManyItems |->
                                             [Widget EXCEPT !.quantity = 100 * i]]]
\* what rule 2 of EXTRACTION_PROMPT asks for when nothing can be read
NullsRecord ==
    [EmptyObject EXCEPT !.vendorName = Null, !.date = Null, !.totalAmount = NullNum,
                        !.currency = Null]
\* a category that is not one of the five of the prompt
CreditNoteRecord == [VendorOnlyRecord EXCEPT !.documentType = "Credit Note"]
StoreRecords ==
    {CompleteRecord, ManyItemsRecord, NullsRecord, CreditNoteRecord, BadItemRecord,
     BadDateRecord}

\* the documents whose extractions are saved, in the order of their arrival;
\* a save is of the next document, or of the first one again
StoreDocs ==
    <<[file_bytes |-> InvoicePdf, filename |-> File("invoice", ".pdf")],
      [file_bytes |-> ReceiptPng, filename |-> File("receipt", ".PNG")],
      [file_bytes |-> BlankPdf, filename |-> File("blank", ".pdf")]>>
FilterSets ==
    {Filters(Null, Null, Null, Null),
     Filters("2024-02-01", Null, Null, Null),
     Filters(Null, "2024-02-01", Null, Null),
     Filters("2024-01-15", "2024-02-01", Null, Null),
     Filters(Null, Null, "acme", Null),
     Filters(Null, Null, "inc", Null),
     Filters(Null, Null, "_", Null),
     Filters(Null, Null, "", Null),
     Filters(Null, Null, Null, "Invoice"),
     Filters(Null, Null, Null, "Unknown"),
     Filters("2024-01-15", "2024-02-15", "acme", "Invoice")}

IdLists == {None, Some(<< >>), Some(<<1>>), Some(<<2, 1>>), Some(<<9>>)}

\* the call and what it returned; one call at a time: every Call action
\* waits until the caller has taken the value of the call before
Called_(fn, arg, ret) == fcall' = [fn |-> fn, arg |-> arg, done |-> TRUE, ret |-> ret]

\* save_extraction(conn, extraction_id, doc_hash, filename, extracted_data, confidence)
CallSaveExtraction ==
    /\ fcall = NoCall
    /\ Cardinality(extractions) < MaxRows
    /\ \E d \in StoreRecords, i \in {1, Cardinality(extractions) + 1} :
          LET extraction_id == Cardinality(extractions) + 1
              doc == StoreDocs[IF i < Len(StoreDocs) THEN i ELSE Len(StoreDocs)]
              doc_hash == generate_doc_hash(doc.file_bytes)
              saved == save_extraction(extractions, line_items, extraction_id, doc_hash,
                                       doc.filename, d, calculate_confidence(d))
          IN  /\ extractions' = saved.extractions
              /\ line_items' = saved.line_items
              /\ \E now \in CURRENT_TIMESTAMP :
                    created_at' = Stamped(saved.extractions, now)
              /\ Called_("save_extraction",
                         [extraction_id |-> extraction_id, doc_hash |-> doc_hash,
                          filename |-> doc.filename, extracted_data |-> d],
                         saved.raised)
    /\ UNCHANGED <<GEMINI_API_KEY, loop_task, pc, upload, images, ollama_out, gemini_out,
                   result, calls, twin_pending, response, provider_request>>

ReadOnly ==
    UNCHANGED <<store, GEMINI_API_KEY, loop_task, pc, upload, images, ollama_out,
                gemini_out, result, calls, twin_pending, response, provider_request>>

\* get_extraction(conn, extraction_id)
CallGetExtraction ==
    /\ fcall = NoCall
    /\ \E extraction_id \in 1..(MaxRows + 1) :
          Called_("get_extraction", extraction_id,
                  get_extraction(extractions, line_items, extraction_id))
    /\ ReadOnly

\* check_duplicate(conn, doc_hash)
CallCheckDuplicate ==
    /\ fcall = NoCall
    /\ \E i \in DOMAIN StoreDocs :
          LET doc_hash == generate_doc_hash(StoreDocs[i].file_bytes)
          IN  Called_("check_duplicate", doc_hash,
                      check_duplicate(extractions, line_items, doc_hash))
    /\ ReadOnly

\* list_extractions(conn, date_from, date_to, vendor, doc_type, offset, limit)
CallListExtractions ==
    /\ fcall = NoCall
    /\ \E f \in FilterSets,
          w \in {[offset |-> 0, limit |-> MaxRows], [offset |-> 0, limit |-> 1],
                 [offset |-> 1, limit |-> 1], [offset |-> MaxRows, limit |-> 1]} :
          \E sorted \in OrderByCreatedAtDesc({row \in extractions : Where(row, f)},
                                             created_at) :
             Called_("list_extractions", [f |-> f, offset |-> w.offset, limit |-> w.limit],
                     list_extractions(extractions, created_at, f, w.offset, w.limit,
                                      sorted))
    /\ ReadOnly

\* list_extractions called with offsets 0, limit, 2 * limit, ... until the
\* pages cover the total it reports; every call is a query of its own
CallListPages ==
    /\ fcall = NoCall
    /\ \E f \in {Filters(Null, Null, Null, Null), Filters(Null, Null, "acme", Null)},
          limit \in 1..2 :
          LET matching == {row \in extractions : Where(row, f)}
              total == Cardinality(matching)
              pages == (total + limit - 1) \div limit
          IN  \E sorted \in [1..pages -> OrderByCreatedAtDesc(matching, created_at)] :
                 Called_("list_pages", [f |-> f, limit |-> limit],
                         [k \in 1..pages |->
                             list_extractions(extractions, created_at, f, (k - 1) * limit,
                                              limit, sorted[k])])
    /\ ReadOnly

\* export_to_csv(conn, extraction_ids)
CallExportToCsv ==
    /\ fcall = NoCall
    /\ \E extraction_ids \in IdLists :
          Called_("export_to_csv", extraction_ids,
                  export_to_csv(extractions, line_items, extraction_ids))
    /\ ReadOnly

\* the caller takes the value returned (the endpoint answers, the test asserts)
TakeResult ==
    /\ fcall # NoCall
    /\ fcall' = NoCall
    /\ ReadOnly

StoreNext ==
    \/ TakeResult
    \/ CallSaveExtraction
    \/ CallGetExtraction
    \/ CallCheckDuplicate
    \/ CallListExtractions
    \/ CallListPages
    \/ CallExportToCsv

Store == Init /\ [][StoreNext]_vars

\* ================================================================ claims
Done(r) == pc[r] = "done"
Created(r) == Done(r) /\ response[r].status = 200 /\ ~response[r].duplicate
Duplicate(r) == Done(r) /\ response[r].status = 200 /\ response[r].duplicate
SameBytes(r1, r2) == upload[r1].file_bytes = upload[r2].file_bytes
Fingerprint(r) == generate_doc_hash(upload[r].file_bytes)
RowsOf(doc_hash) == {row \in extractions : row.doc_hash = doc_hash}
\* the request whose upload created a row
CreatorOf(row) == CHOOSE r \in Reqs : uuid4(r) = row.id
NoCalls == [ollama |-> 0, gemini |-> 0]
\* the local result is an object whose score is at least 0.8
LocalGood(r) ==
    /\ ollama_out[r].kind = "object"
    /\ calculate_confidence(ollama_out[r].data) * 10 >= 8 * Thirtieths
AdapterRaised(out) == out.kind \in {"raise", "malformed", "scalar"}
BetweenCheckAndSave(r) ==
    pc[r] \in {"parse", "ollama_call", "ollama_wait", "gemini_call", "gemini_wait", "returned"}

\* C1: no two stored Extraction records have the same content fingerprint:
\* the doc_hash of every row is the digest of the bytes it was created from,
\* and two different rows never carry the same doc_hash.
FingerprintUnique ==
    \A a, b \in extractions :
        /\ a.doc_hash = generate_doc_hash(upload[CreatorOf(a)].file_bytes)
        /\ a # b => a.doc_hash # b.doc_hash
\* two records are stored, from two uploads of different content
TwoRecordsStored ==
    \E r1, r2 \in Reqs : r1 # r2 /\ Created(r1) /\ Created(r2) /\ Cardinality(extractions) = 2

\* C2: once an upload of bytes B has stored a record with id I, every
\* upload of the same bytes that passes the content-type check and finishes
\* afterwards is answered duplicate = true with id I, has invoked no adapter
\* from its start to its end, and adds no row; and an adapter is only ever
\* invoked for a request that is past its check and whose fingerprint is
\* unregistered (the check comes before the orchestrator).
DuplicateShortCircuits ==
    [][\A r \in Reqs :
         /\ \A q \in Reqs \ {r} :
              (/\ Created(q)
               /\ pc[r] # "done" /\ pc'[r] = "done"
               /\ upload'[r].file_bytes = upload[q].file_bytes
               /\ upload'[r].content_type \in allowed_types)
              => /\ response'[r].status = 200
                 /\ response'[r].duplicate
                 /\ response'[r].id = response[q].id
                 /\ calls'[r] = NoCalls
                 /\ UNCHANGED store
         /\ calls'[r] # calls[r]
              => /\ pc[r] \notin {"new", "read", "check"}
                 /\ RowsOf(Fingerprint(r)) = {}]_vars
\* an upload was answered as a duplicate of the record of an earlier upload
DuplicateAnswered ==
    \E r, q \in Reqs :
        /\ Created(q) /\ Duplicate(r) /\ SameBytes(q, r)
        /\ response[r].id = response[q].id
        /\ calls[r] = NoCalls

\* C3: a run that tried the local adapter ends with the local adapter's
\* result exactly when the local response is an object that scores at least
\* 0.8, and then the remote adapter is not invoked in that run.
LocalResultIffGate ==
    \A r \in Reqs :
        ollama_out[r].kind # "none" =>
            /\ (pc[r] = "returned" /\ result[r].ok /\ result[r].provider = "ollama")
                 <=> LocalGood(r)
            /\ LocalGood(r) =>
                 /\ result[r].data = ollama_out[r].data
                 /\ calls[r].gemini = 0
                 /\ gemini_out[r].kind = "none"
\* a local result with two required fields and both bonuses was returned
LocalResultReturned ==
    \E r \in Reqs :
        /\ pc[r] = "returned" /\ result[r].provider = "ollama"
        /\ ollama_out[r].data = TwoPlusBonusRecord
        /\ calls[r] = [ollama |-> 1, gemini |-> 0]

\* C4: when the local attempt scores below 0.8, raises or fails
\* normalization, the remote adapter is what the run invokes next; an object
\* from the remote adapter is returned under the remote label whatever its
\* score, and the run's outcome never carries the local failure.
RemoteFallback ==
    \A r \in Reqs :
        (ollama_out[r].kind # "none" /\ ~LocalGood(r)) =>
            /\ pc[r] \in {"gemini_call", "gemini_wait", "returned", "raised"}
            /\ pc[r] = "gemini_call" => calls[r].gemini = 0 /\ result[r] = NoResult
            /\ pc[r] # "gemini_call" => calls[r].gemini = 1
            /\ gemini_out[r].kind = "object" =>
                 /\ pc[r] = "returned"
                 /\ result[r].ok
                 /\ result[r].provider = "gemini"
                 /\ result[r].data = gemini_out[r].data
                 /\ result[r].confidence = calculate_confidence(gemini_out[r].data)
            /\ \A i \in 1..Len(result[r].error) :
                 result[r].error[i] \notin {"Ollama extraction failed", "ollama unreachable"}
\* after a local exception the remote adapter's low-scoring object was returned
LowScoreRemoteReturned ==
    \E r \in Reqs :
        /\ pc[r] = "returned" /\ ollama_out[r].kind = "raise"
        /\ gemini_out[r].data = VendorOnlyRecord
        /\ result[r].provider = "gemini"
        /\ result[r].confidence * 10 < 8 * Thirtieths

\* C5: if both adapters raise, the run raises one aggregated error whose last
\* element is the remote adapter's failure and which does not mention the
\* local one, and the caller gets exactly that error as its 500 response.
BothRaiseAllFailed ==
    /\ [](\A r \in Reqs :
            (AdapterRaised(ollama_out[r]) /\ AdapterRaised(gemini_out[r])) =>
                LET e == result[r].error
                IN  /\ pc[r] = "raised" /\ ~result[r].ok
                    /\ e[1] = "All extraction methods failed. Last error"
                    /\ gemini_out[r].kind = "raise" => e[Len(e)] = gemini_out[r].cause
                    /\ GEMINI_API_KEY => Len(e) = 3 /\ e[2] = "Gemini extraction failed"
                    /\ \A i \in 1..Len(e) :
                         e[i] \notin {"Ollama extraction failed", "ollama unreachable"})
    /\ [][\A r \in Reqs :
            (pc[r] = "raised" /\ pc'[r] # "raised") =>
                /\ pc'[r] = "done"
                /\ response'[r] = [status |-> 500,
                                   detail |-> <<"Extraction failed">> \o result[r].error]]_vars
\* both provider calls of one run raised
BothProvidersRaised ==
    \E r \in Reqs :
        /\ pc[r] = "raised"
        /\ ollama_out[r].kind = "raise" /\ gemini_out[r].kind = "raise"
        /\ gemini_out[r].cause = "gemini unreachable"

\* C6: a row is written only by the step that ends a run whose orchestration
\* returned a result; an upload that is rejected or whose orchestration
\* fails finishes without changing either table, no row carries its id, and
\* a check that finds the fingerprint unregistered goes on to the
\* orchestrator.
RejectedOrFailed(resp) ==
    /\ resp.status \in {400, 500}
    /\ resp.detail[1] \in {"Unsupported file type", "File size exceeds 10MB limit",
                           "Extraction failed"}
NoRecordWithoutSuccess ==
    [][\A r \in Reqs :
         /\ (pc[r] # "done" /\ pc'[r] = "done" /\ RejectedOrFailed(response'[r]))
              => /\ UNCHANGED store
                 /\ \A row \in extractions' : row.id # uuid4(r)
                 /\ \A li \in line_items' : li.extraction_id # uuid4(r)
         /\ (pc[r] # pc'[r] /\ (extractions' # extractions \/ line_items' # line_items))
              => pc[r] = "returned" /\ result[r].ok /\ pc'[r] = "done"
         /\ (pc[r] = "check" /\ pc'[r] # "check" /\ RowsOf(Fingerprint(r)) = {})
              => pc'[r] = "parse"]_vars
\* after a failed orchestration the same bytes are in the orchestrator again
FailedUploadRetried ==
    \E r1, r2 \in Reqs :
        /\ r1 # r2 /\ SameBytes(r1, r2)
        /\ Done(r1) /\ response[r1].status = 500 /\ response[r1].detail[1] = "Extraction failed"
        /\ pc[r2] = "ollama_wait"
        /\ extractions = {}

\* C7: for uploads of identical bytes, at most one record results, every
\* upload that is answered 200 carries the id of that one record, at most
\* one of them created it, and none is answered with the store's
\* constraint error.
IdenticalUploadsResolve ==
    \A r1, r2 \in Reqs :
        (r1 # r2 /\ Done(r1) /\ Done(r2) /\ SameBytes(r1, r2)) =>
            /\ Cardinality(RowsOf(Fingerprint(r1))) <= 1
            /\ ~(Created(r1) /\ Created(r2))
            /\ \A r \in {r1, r2} :
                 /\ response[r] # [status |-> 500,
                                   detail |-> <<"Failed to save extraction", "Constraint Error">>]
                 /\ response[r].status = 200 =>
                      \E row \in extractions :
                          RowsOf(Fingerprint(r)) = {row} /\ response[r].id = row.id
\* two uploads of the same bytes were in flight together and both resolved
\* to the one record
SimultaneousUploadsResolved ==
    \E r1, r2 \in Reqs :
        /\ r1 # r2 /\ SameBytes(r1, r2) /\ twin_pending[r1]
        /\ Created(r1) /\ Duplicate(r2)
        /\ response[r2].id = response[r1].id
        /\ Cardinality(RowsOf(Fingerprint(r1))) = 1

\* C8: the check and the save are not atomic: while one upload, whose check
\* found nothing, is at a provider call on its way to the save, a second
\* upload of the same bytes that is waiting to run its check can run it.
CheckThenSaveInterleaves ==
    \A r1, r2 \in Reqs :
        (/\ r1 # r2 /\ SameBytes(r1, r2)
         /\ pc[r1] \in {"ollama_wait", "gemini_wait"}
         /\ RowsOf(Fingerprint(r1)) = {}
         /\ pc[r2] = "read") => ENABLED ReadDone(r2)
\* what the code does instead: at most one upload at a time is between its
\* check and its save
OneUploadPastCheck ==
    \A r1, r2 \in Reqs :
        (BetweenCheckAndSave(r1) /\ BetweenCheckAndSave(r2)) => r1 = r2

\* C9: while one upload waits on a provider call, another upload of
\* different bytes can take its next step.
ProviderWaitDoesNotBlock ==
    \A r1, r2 \in Reqs :
        (/\ r1 # r2
         /\ pc[r1] \in {"ollama_wait", "gemini_wait"}
         /\ pc[r2] = "read" /\ ~SameBytes(r1, r2)) => ENABLED Step(r2)

\* C10: within one run the local adapter is invoked at most once and the
\* remote adapter at most once.
AdaptersInvokedAtMostOnce ==
    \A r \in Reqs : calls[r].ollama <= 1 /\ calls[r].gemini <= 1
\* a run in which both adapters were invoked and both failed
BothAdaptersTriedOnce ==
    \E r \in Reqs :
        /\ pc[r] = "raised"
        /\ AdapterRaised(ollama_out[r]) /\ AdapterRaised(gemini_out[r])
        /\ calls[r] = [ollama |-> 1, gemini |-> 1]

\* the upload prepares to no image at all: its type is unknown, or it is a
\* PDF without pages
ZeroImages(u) ==
    \/ detect_file_type(u.file_bytes, u.filename) = "unknown"
    \/ detect_file_type(u.file_bytes, u.filename) = "pdf" /\ u.file_bytes.pages = 0
NoImagesDetail == <<"Extraction failed", "No images extracted from document">>

\* C11: when the vision preprocessing of an upload yields zero images, the
\* step after preprocessing raises the no-images error, the caller gets that
\* error, no adapter is invoked from the start of the run to its end, and
\* nothing is stored.
NoImagesFailsFast ==
    /\ [](\A r \in Reqs : calls[r] # NoCalls => ~ZeroImages(upload[r]))
    /\ [][\A r \in Reqs :
            /\ (pc[r] = "parse" /\ pc'[r] # "parse" /\ ZeroImages(upload[r]))
                 => /\ pc'[r] = "raised"
                    /\ result'[r].error = <<"No images extracted from document">>
                    /\ calls'[r] = NoCalls
            /\ (pc[r] = "raised" /\ pc'[r] # "raised" /\ ZeroImages(upload[r]))
                 => /\ response'[r] = [status |-> 500, detail |-> NoImagesDetail]
                    /\ calls'[r] = NoCalls
                    /\ UNCHANGED store]_vars
\* an upload of unknown type was answered with the no-images error and a PDF
\* without pages has just raised it, neither having invoked an adapter
NoImagesRejected ==
    \E r1, r2 \in Reqs :
        /\ Done(r1) /\ response[r1] = [status |-> 500, detail |-> NoImagesDetail]
        /\ detect_file_type(upload[r1].file_bytes, upload[r1].filename) = "unknown"
        /\ pc[r2] = "raised" /\ upload[r2].file_bytes = BlankPdf
        /\ result[r2].error = <<"No images extracted from document">>
        /\ calls[r1] = NoCalls /\ calls[r2] = NoCalls

\* the number of page images an upload prepares to
PageCount(u) ==
    IF detect_file_type(u.file_bytes, u.filename) = "pdf" THEN u.file_bytes.pages ELSE 1

\* C12: while a run is in progress, the request its local adapter made
\* carries exactly one image, page 1 of the upload, and the request its
\* remote adapter made carries the prompt followed by pages 1..n of the
\* upload, in that order.
PagesSentToAdapters ==
    \A r \in Reqs :
        LET u == upload[r]
            sent == provider_request[r]
        IN  /\ (calls[r].ollama = 1 /\ ~Done(r))
                 => sent.ollama = << <<"base64", u.file_bytes.content, 1>> >>
            /\ pc[r] = "gemini_wait"
                 => /\ Len(sent.gemini) = PageCount(u) + 1
                    /\ sent.gemini[1] = EXTRACTION_PROMPT
                    /\ \A i \in 1..PageCount(u) :
                         sent.gemini[i + 1] = <<"PIL", u.file_bytes.content, i>>
\* a two-page PDF is at the remote provider: one page went to the local
\* adapter, both went to the remote one
TwoPagesSentRemote ==
    \E r \in Reqs :
        /\ pc[r] = "gemini_wait" /\ PageCount(upload[r]) = 2
        /\ Len(provider_request[r].ollama) = 1
        /\ Len(provider_request[r].gemini) = 3

\* a direct call of fn has returned
Called(fn) == fcall.fn = fn /\ fcall.done

\* A field of a record is present and non-empty when its key is there with a
\* value other than null, the empty string, the empty list and the number 0
\* (EXTRACTION_PROMPT, rule 2: a missing number is written null or 0).
ScoredFields == {"vendorName", "totalAmount", "date", "invoiceNumber", "lineItems"}
FieldPresent(d, f) ==
    CASE f = "totalAmount" -> d.totalAmount > 0
      [] f = "lineItems" -> Len(d.lineItems) > 0
      [] OTHER -> d[f] \notin {Missing, Null, ""}
PresentFields(d) == {f \in ScoredFields : FieldPresent(d, f)}

\* C13: the score of a record, in thirtieths, is min(30, 10 k + 3 a + 3 b),
\* k the number of vendorName, totalAmount, date that are present and
\* non-empty, a = 1 for a non-empty lineItems, b = 1 for a present and
\* non-empty invoiceNumber; nothing but the record enters it.
ScoreIsClampedSum ==
    Called("calculate_confidence") =>
        LET present == PresentFields(fcall.arg)
            k == Cardinality(present \cap {"vendorName", "totalAmount", "date"})
            a == Cardinality(present \cap {"lineItems"})
            b == Cardinality(present \cap {"invoiceNumber"})
            sum == 10 * k + 3 * a + 3 * b
        IN  fcall.ret = IF sum > 30 THEN 30 ELSE sum
\* a record with all five fields was scored: the sum 1.2 is returned as 1.0
FullRecordScored ==
    /\ Called("calculate_confidence")
    /\ PresentFields(fcall.arg) = ScoredFields
    /\ fcall.ret = Thirtieths

\* C14: the score of every record lies in [0, 1], and so does the confidence
\* of every stored row, of every result a run holds and of every response
\* that carries one.  (The range of the scorer over its records is a fact
\* about the function alone; it is evaluated in the states before the first
\* upload.)
ConfidenceInUnitInterval ==
    /\ (\A r \in Reqs : pc[r] = "new")
         => \A d \in ScorerRecords \cup ProviderRecords :
                calculate_confidence(d) \in 0..Thirtieths
    /\ \A row \in extractions : row.confidence \in 0..Thirtieths
    /\ \A r \in Reqs :
         /\ result[r].confidence \in 0..Thirtieths
         /\ Created(r) => response[r].confidence \in 0..Thirtieths
\* a complete record, whose unclamped sum is 1.2, is stored and answered
\* with confidence 1.0, next to a record stored with a lower confidence
FullScoreStored ==
    \E r1, r2 \in Reqs :
        /\ Created(r1) /\ response[r1].data = CompleteRecord
        /\ response[r1].confidence = Thirtieths
        /\ \E row \in extractions : row.id = response[r1].id /\ row.confidence = Thirtieths
        /\ Created(r2) /\ response[r2].confidence < Thirtieths

\* C15: if every field of vendorName, totalAmount, date, invoiceNumber,
\* lineItems that is present in the scored record is present in a second
\* record, the second record scores at least as much.
ScoreMonotone ==
    Called("calculate_confidence") =>
        \A d2 \in ScorerRecords :
            PresentFields(fcall.arg) \subseteq PresentFields(d2)
                => fcall.ret <= calculate_confidence(d2)
\* a record with vendorName alone was scored 1/3; records with more fields
\* exist and score more
ScoreGrowsWithFields ==
    /\ Called("calculate_confidence")
    /\ PresentFields(fcall.arg) = {"vendorName"}
    /\ fcall.ret = 10
    /\ \E d2 \in ScorerRecords :
         /\ PresentFields(d2) = {"vendorName", "date"}
         /\ calculate_confidence(d2) = 20

\* the text is a well-formed JSON object text
IsObjectText(text) == json_loads(text).raised = "" /\ json_loads(text).value.type = "object"
\* no span of the text is an object text
ContainsNoObject(text) ==
    \A i, j \in 1..Len(text) : i <= j => ~IsObjectText(SubSeq(text, i, j))
Occurs(text, piece) == \E i \in 1..Len(text) : text[i] = piece

\* C16: given an object text J bare, in code fences (with or without the
\* json tag), or with prose before and/or after it, parse_json_response
\* returns the object J denotes; given a text that contains no object it
\* raises.
NormalizeRecoversObject ==
    Called("parse_json_response") =>
        /\ \A J \in ObjectTexts, f \in Fences, b \in Prose, a \in Prose :
             (/\ f = << >> \/ (b = << >> /\ a = << >>)
              /\ fcall.arg = Wrapped(f, b, J, a))
             => fcall.ret = json_loads(J)
        /\ ContainsNoObject(fcall.arg) => fcall.ret.raised # ""

\* C17: parse_json_response raises the malformed-response error for every
\* text without a brace pair, and what it returns is always an object.
NoBracePairRaises ==
    Called("parse_json_response") =>
        /\ (~Occurs(fcall.arg, "{") \/ ~Occurs(fcall.arg, "}"))
             => fcall.ret.raised = "Failed to parse JSON response"
        /\ fcall.ret.raised = "" => fcall.ret.value.type = "object"

\* the spellings of the extensions, in any case
PdfSpellings == {".pdf", ".PDF", ".Pdf"}
ImageSpellings ==
    {".png", ".PNG", ".jpg", ".JPG", ".jpeg", ".JPEG", ".gif", ".bmp", ".webp"}

\* C18: the type is the one the extension names, in whatever case it is
\* written; only a filename whose extension names neither is decided by the
\* magic bytes (%PDF: pdf; the PNG or JPEG signature: image; otherwise
\* unknown); every call returns one of pdf, image, unknown.
ExtensionThenMagic ==
    Called("detect_file_type") =>
        LET ext == fcall.arg.filename.ext
            magic == fcall.arg.file_bytes.magic
        IN  /\ fcall.ret \in {"pdf", "image", "unknown"}
            /\ ext \in PdfSpellings => fcall.ret = "pdf"
            /\ ext \in ImageSpellings => fcall.ret = "image"
            /\ ext \notin PdfSpellings \cup ImageSpellings =>
                 /\ magic = "%PDF" => fcall.ret = "pdf"
                 /\ magic \in {"\\x89PNG", "\\xff\\xd8\\xff"} => fcall.ret = "image"
                 /\ magic \notin {"%PDF", "\\x89PNG", "\\xff\\xd8\\xff"} => fcall.ret = "unknown"
\* a file named .PDF that starts with the PNG signature was typed pdf, and
\* the detector has a file it types by its magic bytes alone
ExtensionBeatsMagic ==
    /\ Called("detect_file_type")
    /\ fcall.arg.filename.ext = ".PDF"
    /\ fcall.arg.file_bytes.magic = "\\x89PNG"
    /\ fcall.ret = "pdf"
    /\ detect_file_type(InvoicePdf, File("doc", "")) = "pdf"

ParseDocumentRaised == "raised" \in DOMAIN fcall.ret
CalledType == detect_file_type(fcall.arg.file_bytes, fcall.arg.filename)

\* C19: parse_document raises when the type of its input is unknown and
\* when a PDF it is to rasterize has no pages; it returns no prepared
\* content then.
PreprocessFailsWithoutPages ==
    (/\ Called("parse_document")
     /\ \/ CalledType = "unknown"
        \/ /\ CalledType = "pdf"
           /\ OpensAsPdf(fcall.arg.file_bytes) /\ fcall.arg.file_bytes.pages = 0
           /\ fcall.arg.strategy \in {"vision", "hybrid"})
    => ParseDocumentRaised

\* the result has images: one per page in page order, and their count
HasPageImages(parsed, file_bytes, n) ==
    /\ {"images", "image_count"} \subseteq DOMAIN parsed
    /\ parsed["image_count"] = Len(parsed["images"])
    /\ Len(parsed["images"]) = n
    /\ \A i \in 1..n : parsed["images"][i] = <<"base64", file_bytes.content, i>>
HasText(parsed) == {"text", "tables"} \subseteq DOMAIN parsed
NoText(parsed) == {"text", "tables"} \cap DOMAIN parsed = {}
NoPageImages(parsed) == {"images", "image_count"} \cap DOMAIN parsed = {}

\* C20: whatever parse_document returns for a pdf or an image follows the
\* strategy: text gives text and tables and no images, vision gives the page
\* images and no text or tables, hybrid gives both.
ContentMatchesStrategy ==
    (Called("parse_document") /\ CalledType \in {"pdf", "image"} /\ ~ParseDocumentRaised) =>
        LET parsed == fcall.ret
            file_bytes == fcall.arg.file_bytes
            n == IF CalledType = "pdf" THEN file_bytes.pages ELSE 1
        IN  /\ fcall.arg.strategy = "text" => HasText(parsed) /\ NoPageImages(parsed)
            /\ fcall.arg.strategy = "vision"
                 => HasPageImages(parsed, file_bytes, n) /\ NoText(parsed)
            /\ fcall.arg.strategy = "hybrid"
                 => HasText(parsed) /\ HasPageImages(parsed, file_bytes, n)

\* the stored row a call names by its id
RowWithId(extraction_id) == CHOOSE row \in extractions : row.id = extraction_id
\* save_extraction stored every line item it was handed
SavedWhole(row) ==
    \A i \in DOMAIN row.raw_json.lineItems : ItemStorable(row.raw_json.lineItems[i])
\* the line items save_extraction was handed, in input order, as get_extraction
\* writes a stored item
InputItems(row) ==
    [i \in DOMAIN row.raw_json.lineItems |->
        ItemDict(LineItemRow(row.id, i - 1, row.raw_json.lineItems[i]))]

\* C21: for every extraction saved with n line items, n > 10 included,
\* get_extraction returns exactly the n items in input order.
ItemsComeBackInOrder ==
    (Called("get_extraction") /\ fcall.ret.found) =>
        LET row == RowWithId(fcall.arg)
        IN  SavedWhole(row) => fcall.ret.lineItems = InputItems(row)

\* a record whose header and line items the two tables can hold
Storable(d) == HeaderStorable(d) /\ \A i \in DOMAIN d.lineItems : ItemStorable(d.lineItems[i])
\* this step is a call of save_extraction
SaveCalled == fcall = NoCall /\ fcall'.fn = "save_extraction"

\* C22: every stored line item references a stored Extraction, because
\* save_extraction inserts the header before the line items: no item of a
\* storable record with a new fingerprint is turned away for want of its header.
ItemsReferToHeader ==
    /\ [](\A li \in line_items : \E row \in extractions : row.id = li.extraction_id)
    /\ [][(/\ SaveCalled
           /\ Storable(fcall'.arg.extracted_data)
           /\ \A row \in extractions : /\ row.doc_hash # fcall'.arg.doc_hash
                                         /\ row.id # fcall'.arg.extraction_id)
          => /\ fcall'.ret = ""
             /\ \E row \in extractions' : row.id = fcall'.arg.extraction_id
             /\ Cardinality(RowItems(line_items', fcall'.arg.extraction_id))
                  = Len(fcall'.arg.extracted_data.lineItems)]_vars
\* a record with two line items saved next to an earlier one, and a save
\* that stopped at its second item
HeaderAndItemsStored ==
    /\ Called("save_extraction")
    /\ fcall.ret = ""
    /\ fcall.arg.extraction_id = 2
    /\ Cardinality(RowItems(line_items, 2)) = 2
    /\ RowWithId(1).raw_json = BadItemRecord
    /\ Cardinality(RowItems(line_items, 1)) = 1

ReadFunctions ==
    {"get_extraction", "check_duplicate", "list_extractions", "list_pages", "export_to_csv"}

\* C23: the store is append-only: no call changes or removes a stored row,
\* a save of a fingerprint already stored included, and get_extraction,
\* check_duplicate, list_extractions and export_to_csv leave the store as it is.
StoreAppendOnly ==
    [][/\ extractions \subseteq extractions'
       /\ line_items \subseteq line_items'
       /\ \A id \in DOMAIN created_at :
             id \in DOMAIN created_at' /\ created_at'[id] = created_at[id]
       /\ fcall'.fn \in ReadFunctions => UNCHANGED store]_vars
\* a second save of a stored fingerprint was refused, with another record
SecondSaveRefused ==
    /\ Called("save_extraction")
    /\ fcall.ret = "Constraint Error"
    /\ \E row \in extractions :
          /\ row.doc_hash = fcall.arg.doc_hash
          /\ row.raw_json # fcall.arg.extracted_data

\* text contains needle, letters compared in lower case
Contains(text, needle) ==
    \E i \in 0..(Len(text) - Len(needle)) :
        \A j \in 1..Len(needle) : LowerChar(text[i + j]) = LowerChar(needle[j])
\* the row satisfies every filter that is supplied
Satisfies(row, f) ==
    /\ TruthyStr(f.date_from) =>
          row.date # Null /\ DateOrd(row.date) >= DateOrd(f.date_from)
    /\ TruthyStr(f.date_to) =>
          row.date # Null /\ DateOrd(row.date) <= DateOrd(f.date_to)
    /\ TruthyStr(f.vendor) =>
          row.vendor_name # Null /\ Contains(Chars(row.vendor_name), Chars(f.vendor))
    /\ TruthyStr(f.doc_type) => row.document_type = f.doc_type
Filtered(f) == {row \in extractions : Satisfies(row, f)}

\* C24: list_extractions reports as total the number of stored extractions
\* that satisfy all supplied filters (date from, date to, vendor contained
\* in the vendor name in any case, document type equal), whatever the offset
\* and limit; every entry of the page satisfies them, and the page has at
\* most limit entries.
ListCountsAndFilters ==
    Called("list_extractions") =>
        LET page == fcall.ret.extractions
        IN  /\ fcall.ret.total = Cardinality(Filtered(fcall.arg.f))
            /\ \A i \in DOMAIN page : \E row \in Filtered(fcall.arg.f) : row.id = page[i].id
            /\ Len(page) <= fcall.arg.limit

\* the ids on one page
PageIds(page) == {page.extractions[i].id : i \in DOMAIN page.extractions}

\* C25: pages fetched with one limit and offsets 0, limit, 2 * limit, ...
\* hold together exactly the ids of the filtered set, no id missing and no
\* id on two pages, also when extractions share a creation timestamp.
PagesPartitionFiltered ==
    Called("list_pages") =>
        LET pages == fcall.ret
        IN  /\ UNION {PageIds(pages[k]) : k \in DOMAIN pages}
                 = {row.id : row \in Filtered(fcall.arg.f)}
            /\ \A k1, k2 \in DOMAIN pages :
                  k1 # k2 => PageIds(pages[k1]) \cap PageIds(pages[k2]) = {}

\* the comma-separated fields of a line: one more than its commas
FieldCount(line) == 1 + Cardinality({i \in DOMAIN line : line[i] = ","})
\* the extractions an export is asked for: all of them, or those of a list
Selected(extraction_ids) ==
    IF extraction_ids = None THEN extractions
    ELSE {row \in extractions :
            \E i \in DOMAIN extraction_ids[1] : extraction_ids[1][i] = row.id}
\* the data lines of an extraction: those that begin with its id
LinesOf(lines, row) == {i \in 2..Len(lines) : lines[i][1] = ToString(row.id)}
ItemCount(row) == Cardinality(RowItems(line_items, row.id))

\* C26: export_to_csv writes the header of 15 columns first, then one row
\* for every line item of every selected extraction and one row with empty
\* item fields for a selected extraction without line items (max(1, items)
\* rows each); every data row has exactly 15 comma-separated fields.
ExportShape ==
    (Called("export_to_csv") /\ fcall.arg # Some(<< >>)) =>
        LET lines == fcall.ret
            selected == Selected(fcall.arg)
        IN  /\ lines[1] = CsvHeader
            /\ FieldCount(lines[1]) = 15
            /\ \A i \in 2..Len(lines) :
                  /\ FieldCount(lines[i]) = 15
                  /\ \E row \in selected : i \in LinesOf(lines, row)
            /\ \A row \in selected :
                  /\ Cardinality(LinesOf(lines, row))
                       = IF ItemCount(row) = 0 THEN 1 ELSE ItemCount(row)
                  /\ ItemCount(row) = 0 =>
                        \A i \in LinesOf(lines, row) :
                            SubSeq(lines[i], Len(lines[i]) - 4, Len(lines[i]))
                              = <<",", ",", ",", ",", ",">>
\* the long record, whose vendor name has a comma, exported with a record
\* without line items
LongAndBareExported ==
    /\ Called("export_to_csv")
    /\ fcall.arg = Some(<<2, 1>>)
    /\ Cardinality(extractions) = 2
    /\ RowWithId(1).vendor_name = "ACME, Inc"
    /\ ItemCount(RowWithId(1)) = ManyItems
    /\ ItemCount(RowWithId(2)) = 0
    /\ Len(fcall.ret) = 1 + ManyItems + 1

WrongType(u) == u.content_type \notin allowed_types
TooLarge(u) == u.file_bytes.size > MaxUploadBytes
UnsupportedType(u) == HttpError(400, <<"Unsupported file type", u.content_type>>)
SizeExceeded == HttpError(400, <<"File size exceeds 10MB limit">>)

\* C27: an upload whose content type is not allowed, or whose size is above
\* 10 MiB, is turned away before its bytes are fingerprinted, looked up,
\* preprocessed, sent to a provider or stored; a file of exactly 10 MiB is
\* not turned away.
RejectedBeforeAnyWork ==
    \A r \in Reqs :
        upload[r] # NoUpload =>
            /\ WrongType(upload[r]) => Done(r) /\ response[r] = UnsupportedType(upload[r])
            /\ (~WrongType(upload[r]) /\ TooLarge(upload[r])) =>
                  /\ pc[r] \in {"read", "done"}
                  /\ Done(r) => response[r] = SizeExceeded
            /\ (WrongType(upload[r]) \/ TooLarge(upload[r])) =>
                  /\ calls[r] = NoCalls
                  /\ images[r] = << >>
                  /\ provider_request[r] = NoRequest
                  /\ \A row \in extractions : row.id # uuid4(r)
            /\ (~WrongType(upload[r]) /\ ~TooLarge(upload[r]) /\ Done(r)) =>
                  response[r] \notin {UnsupportedType(upload[r]), SizeExceeded}
\* a file of exactly 10 MiB was stored and one of a byte more turned away
TenMiBStoredLargerRejected ==
    \E r1, r2 \in Reqs :
        /\ upload[r1].file_bytes.size = MaxUploadBytes /\ Created(r1)
        /\ upload[r2].file_bytes.size = MaxUploadBytes + 1
        /\ response[r2] = SizeExceeded

ResponseFields == {"id", "data", "confidence", "provider", "duplicate"}

\* C28: every upload that completes without an error answers with all five
\* of id, data, confidence, provider and duplicate, for a new extraction
\* and for a duplicate alike.
AnswerHasFiveFields ==
    \A r \in Reqs :
        (Done(r) /\ response[r].status = 200) => ResponseFields \subseteq DOMAIN response[r]

\* C29: the document category of every stored Extraction is one of Invoice,
\* Receipt, Bank Statement, Insurance EOB and Unknown, whatever the provider
\* returned, and it is Unknown when the provider's output has none.
CategoryIsOneOfFive ==
    \A row \in extractions :
        /\ row.document_type \in DocumentType
        /\ row.raw_json.documentType \in {Missing, Null} => row.document_type = "Unknown"

\* C30: every stored Extraction whose provider output had no currency (the
\* key missing, or null) has the currency USD, in the stored column and in
\* the record get_extraction returns.
CurrencyDefaultsToUSD ==
    \A row \in extractions :
        row.raw_json.currency \in {Missing, Null} =>
            /\ row.currency = "USD"
            /\ get_extraction(extractions, line_items, row.id).currency = "USD"

\* C31: get_extraction of an id that was never stored returns nothing (the
\* endpoint answers NotFound) and of a stored id returns the record with that
\* id; either way the call leaves the store as it was.
GetByIdFindsThatIdOnly ==
    /\ [](Called("get_extraction") =>
            /\ (~fcall.ret.found) <=> (\A row \in extractions : row.id # fcall.arg)
            /\ fcall.ret.found => fcall.ret.id = fcall.arg)
    /\ [][fcall'.fn = "get_extraction" => UNCHANGED store]_vars
\* an id that was never stored is asked for while another one is stored
UnknownIdNotFound ==
    /\ Called("get_extraction")
    /\ fcall.ret = NotFound
    /\ extractions # {}
    /\ \A row \in extractions : row.id # fcall.arg

\* r waits for ollama.chat or generate_content to return or raise
AtProvider(r) == pc[r] \in {"ollama_wait", "gemini_wait"}

\* C32: every upload the server has taken up eventually completes with a
\* result or an error, provided every provider call it makes eventually
\* returns or raises.
EveryUploadCompletes ==
    \A r \in Reqs : ([]<>(~AtProvider(r))) => ((pc[r] # "new") ~> Done(r))

\* C33: check_duplicate(fingerprint) returns a record iff an Extraction with
\* that fingerprint is stored, and the record it returns is that Extraction:
\* the header of the row with the fingerprint and the line items stored for it.
DuplicateCheckFindsThatFingerprint ==
    Called("check_duplicate") =>
        /\ fcall.ret.found <=> (\E row \in extractions : row.doc_hash = fcall.arg)
        /\ fcall.ret.found =>
              LET row == RowWithId(fcall.ret.id)
                  items == RowItems(line_items, row.id)
              IN  /\ row.doc_hash = fcall.arg
                  /\ fcall.ret.documentType = row.document_type
                  /\ fcall.ret.vendorName = row.vendor_name
                  /\ fcall.ret.invoiceNumber = row.invoice_number
                  /\ fcall.ret.date = row.date
                  /\ Len(fcall.ret.lineItems) = Cardinality(items)
                  /\ {fcall.ret.lineItems[i] : i \in DOMAIN fcall.ret.lineItems}
                       = {ItemDict(li) : li \in items}
\* the fingerprint of the second of two stored documents is looked up, and
\* the record that comes back has line items
SecondFingerprintFound ==
    /\ Called("check_duplicate")
    /\ fcall.ret.found
    /\ fcall.ret.id = 2
    /\ Cardinality(extractions) = 2
    /\ fcall.ret.lineItems # << >>

SaveIsAllOrNothing ==
    (Called("save_extraction") /\ fcall.ret # "") =>
        /\ \A row \in extractions :
              row.id # fcall.arg.extraction_id
        /\ RowItems(line_items, fcall.arg.extraction_id) = {}
        /\ \A row \in extractions :
              row.doc_hash = fcall.arg.doc_hash => row.raw_json # fcall.arg.extracted_data

\* the three fields of the base score
RequiredFields == {"vendorName", "totalAmount", "date"}

\* C36: a local result passes the 0.8 gate exactly when all three of
\* vendorName, totalAmount and date are present, or exactly two of them
\* together with both a non-empty lineItems and a non-empty invoiceNumber;
\* with fewer than two present the run goes to the remote adapter.
GatePassesOnThreeOrTwoWithBonuses ==
    Called("calculate_confidence") =>
        LET present == PresentFields(fcall.arg)
            k == Cardinality(present \cap RequiredFields)
            local == [ok |-> TRUE, confidence |-> fcall.ret]
        IN  /\ PassesGate(local.confidence)
                 <=> \/ k = 3
                     \/ k = 2 /\ {"lineItems", "invoiceNumber"} \subseteq present
            /\ (NextAfterLocal(local) = "returned") <=> PassesGate(local.confidence)
            /\ k < 2 => NextAfterLocal(local) = "gemini_call"
\* two of the three with both bonuses passes; the third field is a zero total
TwoWithBothBonusesPasses ==
    /\ Called("calculate_confidence")
    /\ Cardinality(PresentFields(fcall.arg) \cap RequiredFields) = 2
    /\ fcall.arg.totalAmount = 0
    /\ PassesGate(fcall.ret)

\* the record scored, with another totalAmount
WithTotal(amount) == [fcall.arg EXCEPT !.totalAmount = amount]

\* C37: a record whose totalAmount is present with the numeric value 0 is
\* scored as having totalAmount present: its score equals the score of the
\* same record with a non-zero amount.
ZeroTotalScoredAsPresent ==
    (Called("calculate_confidence") /\ fcall.arg.totalAmount = 0) =>
        fcall.ret = calculate_confidence(WithTotal(150000))

\* C37, amended: a record whose totalAmount is 0 is scored as having no
\* totalAmount: its score equals the score of the same record with the
\* amount null or missing, and is below its score with a non-zero amount.
ZeroTotalScoredAsAbsent ==
    (Called("calculate_confidence") /\ fcall.arg.totalAmount = 0) =>
        /\ fcall.ret = calculate_confidence(WithTotal(NullNum))
        /\ fcall.ret = calculate_confidence(WithTotal(MissingNum))
        /\ fcall.ret < calculate_confidence(WithTotal(150000))
\* vendor, date, invoice number and line items with a total of 0: 0.867
ZeroTotalInvoiceScored ==
    /\ Called("calculate_confidence")
    /\ fcall.arg.totalAmount = 0
    /\ PresentFields(fcall.arg) = ScoredFields \ {"totalAmount"}
    /\ fcall.ret = 26

\* C38: when export_to_csv is given a list of ids, every data row belongs
\* to an extraction whose id is in the list, for every list: an id that is
\* not stored contributes no row, and the empty list yields the header only.
ExportOnlyListedIds ==
    (Called("export_to_csv") /\ fcall.arg # None) =>
        LET lines == fcall.ret
            extraction_ids == fcall.arg[1]
        IN  /\ lines[1] = CsvHeader
            /\ \A i \in 2..Len(lines) :
                  \E k \in DOMAIN extraction_ids : lines[i][1] = ToString(extraction_ids[k])

====
